---- MODULE Spec2Model ----
(***************************************************************************)
(* The incremental-update write path of the PDF accessor:                  *)
(*   BasePdfManager.annotateDocument  (src/src/core/pdf_manager.js)         *)
(*   writeAnnotation, annotationDict  (src/src/core/annotation_writer.js)   *)
(* The same steps are repeated inline by the second copy of                *)
(* BasePdfManager.annotateDocument (pdf_manager.js:361-418) and by         *)
(* annotateDocument of src/src/editing/annotating.js.                      *)
(* One document, one accessor, several annotate calls.  JavaScript runs    *)
(* one continuation at a time, so every action below is one synchronous    *)
(* run of code between two suspension points (promise continuations); the  *)
(* order in which pending continuations run is left to the scheduler.      *)
(*                                                                         *)
(* Specifications:                                                         *)
(*   Spec        annotate calls on one accessor                            *)
(*   SpecDict    one build of the annotation Dictionary, per entry point   *)
(*   SpecEnsure  one ensure call (LocalPdfManager, NetworkPdfManager,      *)
(*               UpdatePdfManager) against a Byte-Range Source             *)
(*   SpecCaps    requestRange, requestLoadedStream, sendProgressiveData    *)
(*               and terminate called on each accessor class               *)
(*   SpecUpdate  Spec plus an UpdatePdfManager layered on the accessor     *)
(*   SpecNetwork annotate and ensure calls on a NetworkPdfManager whose     *)
(*               stream is loaded, fails or is terminated meanwhile        *)
(*   SpecLayer   an UpdatePdfManager built over a stored fragment          *)
(*   SpecRuns    the file opened and annotated again, runs compared        *)
(*   SpecShared  every operation of the accessor on one document           *)
(*   SpecEditor  the annotation editor of the viewer                       *)
(*               (src/unnamed/part_000)                                    *)
(*   SpecView    one page view of the viewer and its paint tasks           *)
(*               (src/web/pdf_page_view.js)                                *)
(***************************************************************************)
EXTENDS Integers, Sequences, FiniteSets, TLC

(* ------------------------------ bounds -------------------------------- *)

\* number of annotateDocument calls issued against the document
MaxCalls == 2
\* number of times the annotation editor is switched on
MaxBinds == 3
\* number of paint tasks a page view starts
MaxDraws == 2
\* number of pages of the document; page index NumPages is out of range
NumPages == 2

Calls == 1..MaxCalls
PageIndices == 0..(NumPages - 1)
\* the page indices a request may carry: the valid ones and one invalid one
RequestPages == 0..NumPages

(* --------------------------- object primitives ------------------------ *)

\* primitives.js (imported at annotation_writer.js:1): new Ref(num, gen)
Ref(num, gen) == [num |-> num, gen |-> gen]

\* new Name(name): an atom distinct from the string of the same text
Name(name) == [t |-> "name", name |-> name]
\* a string value of a dictionary
Str(s) == [t |-> "string", s |-> s]
\* an array value of a dictionary
Arr(a) == [t |-> "array", a |-> a]
\* an indirect reference stored as a dictionary value
RefVal(r) == [t |-> "ref", r |-> r]

\* A Dict is the sequence of its entries in insertion order.
EmptyDict == << >>

\* Dict.getKeys(): the keys in insertion order
getKeys(d) == [i \in 1..Len(d) |-> d[i].k]

\* Dict.has(key)
has(d, key) == \E i \in 1..Len(d) : d[i].k = key

\* Dict.getRaw(key): the stored value, no resolution of references
getRaw(d, key) == d[CHOOSE i \in 1..Len(d) : d[i].k = key].v

\* Dict.set(key, value): an existing key keeps its place, a new key goes last
set(d, key, value) ==
    IF has(d, key)
    THEN [i \in 1..Len(d) |-> IF d[i].k = key THEN [k |-> key, v |-> value] ELSE d[i]]
    ELSE Append(d, [k |-> key, v |-> value])

(* ------------------------------- state -------------------------------- *)

VARIABLES
    trailerSize,    \* pdfDocument.xref.trailer.get('Size')
    startXRef,      \* pdfDocument.startXRef
    byteLength,     \* stream.bytes.byteLength of the accessor's loaded stream
    annotations,    \* annotations[p]: pdfPage.annotations of page p
    pageDict,       \* pageDict[p]: pdfPage.pageDict of page p
    pc,             \* pc[c]: where call c stands
    annotation,     \* annotation[c]: the request of call c
    local,          \* local[c]: the closure of call c (byteLength, startXRef, size, newAnnotationRef)
    result,         \* result[c]: the fragment call c resolved with
    settledBefore,  \* settledBefore[c]: the calls already settled when c was issued
    seen,           \* seen[c]: what the getPage continuation of call c read
    fileAnnots      \* fileAnnots[p]: page p of the original file has an Annots entry

\* the state of the write path
writeVars == << trailerSize, startXRef, byteLength, annotations, pageDict,
                pc, annotation, local, result, settledBefore, seen,
                fileAnnots >>

\* One build of an annotation Dictionary, taken alone (specification SpecDict)
VARIABLES
    dictEntry,      \* the annotate entry point that builds the Dictionary
    dictProps,      \* the request handed to it
    dictView,       \* pdfPage.view of the page it is for
    dictOut         \* newAnnotationDict once built, the empty Dict before

dictVars == << dictEntry, dictProps, dictView, dictOut >>

\* One ensure call on an accessor (specification SpecEnsure)
VARIABLES
    variant,        \* the accessor's class: "local", "network" or "layered"
    resident,       \* the byte offsets the document's stream holds
    epc,            \* the call: "idle", "waiting", "resolved" or "rejected"
    eOp,            \* the operation (obj, prop, args) the call was made with
    eResult,        \* what the call's promise settled with
    signals,        \* the MissingDataExceptions the call caught, in order
    requests,       \* the ranges the call asked the Byte-Range Source for
    reqState,       \* the last range request: "none", "requested", "completed"
    attempts,       \* how many times the operation was invoked
    lastReads,      \* the ranges the last invocation read, in order
    wellFormed      \* every completed range request left its range resident

ensureVars == << variant, resident, epc, eOp, eResult, signals, requests,
                 reqState, attempts, lastReads, wellFormed >>

\* Calls of the other capabilities of an accessor (specification SpecCaps)
VARIABLES
    capLog,         \* the capability calls made, each with how it ended
    password        \* this._password

capVars == << capLog, password >>

\* The layered accessor built on the first one (specification SpecUpdate)
VARIABLES
    layer,          \* "none"; "pending" from new UpdatePdfManager(old, data)
                    \* until its _loadedStreamPromise settles; then "ready",
                    \* or "rejected" when the promise was rejected
    updatedData,    \* the call whose fragment is the updatedData; 0 if none,
                    \* or if the bytes come from an earlier session
    callsAtBuild,   \* how many annotate calls had been issued at that time
    applied         \* the last ensure, getPage or onLoadedStream made
                    \* through the layered accessor, with the layer's state
                    \* when it was made

layerVars == << layer, updatedData, callsAtBuild, applied >>

\* The full byte stream of the first accessor (specification SpecNetwork)
VARIABLES
    stream          \* "loaded": onLoadedStream() has resolved with all bytes;
                    \* "partial": part of the file is resident, nothing asked;
                    \* "requested": all chunks are asked for; "failed": the
                    \* source failed or was aborted before the file was whole

streamVars == << stream >>

\* The annotation editor of the viewer (specification SpecEditor)
VARIABLES
    active,         \* this.active
    toggled,        \* the toggle button carries the class 'toggled'
    listeners,      \* the 'keyup' listeners registered on the document
    binds,          \* the number of functions made by handleKeyPress.bind(this)
    editor,         \* this.editor: null or the edit box element
    input,          \* this.input: null or the textarea of the edit box
    coordinates,    \* this.coordinates
    page,           \* this.page
    boxes,          \* the number of edit boxes attached to document.body
    dispatched,     \* the events the handler that ran last has dispatched
    handled,        \* the event the handler that ran last was given
    opener          \* the pageclick event that opened the edit box, if any

editorVars == << active, toggled, listeners, binds, editor, input,
                coordinates, page, boxes, dispatched, handled, opener >>

\* One page view of the viewer (specification SpecView)
VARIABLES
    renderer,        \* this.renderer: "canvas" or "svg"
    useOnlyCssZoom,  \* this.useOnlyCssZoom
    pdfPage,         \* this.pdfPage is set
    renderingState,  \* this.renderingState
    paintTask,       \* this.paintTask: 0 for null, or the number of the task
    resume,          \* this.resume: 0 for null, or the task whose cont it calls
    textLayer,       \* this.textLayer is set
    annotationLayer, \* this.annotationLayer is set
    canvas,          \* this.canvas is set
    svg,             \* this.svg is set
    zoomLayer,       \* this.zoomLayer is set
    error,           \* this.error: "null" or "Error"
    tasks,           \* tasks[k]: the paint task of the k-th draw() that painted
    rendered,        \* the events the handler that ran last has dispatched
    ran              \* the handler that ran last

viewVars == << renderer, useOnlyCssZoom, pdfPage, renderingState, paintTask,
              resume, textLayer, annotationLayer, canvas, svg, zoomLayer,
              error, tasks, rendered, ran >>

\* what the write path leaves alone
otherVars == << dictVars, ensureVars, capVars, layerVars >>

\* what building a Dictionary leaves alone
notDictVars == << writeVars, ensureVars, capVars, layerVars, streamVars,
                    editorVars, viewVars >>

\* what an ensure call leaves alone
notEnsureVars == << writeVars, dictVars, capVars, layerVars, streamVars,
                    editorVars, viewVars >>

vars == << writeVars, otherVars, streamVars, editorVars, viewVars >>

(* ------------------------- the parsed document ------------------------ *)

\* the identity Ref of page p (pdfPage.ref)
PageRef(p) == Ref(p + 1, 0)

\* the annotation objects attached to page p in the original file: one
\* when the page has an Annots entry, none otherwise
OriginalAnnotations(p) ==
    IF fileAnnots[p] THEN << Ref(NumPages + 1 + p, 0) >> ELSE << >>

\* the backing Dictionary of page p in the original file (pdfPage.pageDict),
\* with an Annots key between other keys or with none
OriginalPageDict(p) ==
    IF fileAnnots[p]
    THEN << [k |-> "Type",     v |-> Name("Page")],
            [k |-> "Annots",   v |-> RefVal(Ref(2 * NumPages + 1 + p, 0))],
            [k |-> "Contents", v |-> RefVal(Ref(3 * NumPages + 1 + p, 0))],
            [k |-> "Parent",   v |-> RefVal(Ref(0, 0))] >>
    ELSE << [k |-> "Parent",   v |-> RefVal(Ref(0, 0))],
            [k |-> "Type",     v |-> Name("Page")],
            [k |-> "Contents", v |-> RefVal(Ref(3 * NumPages + 1 + p, 0))] >>

\* trailer.Size of the original file: one past the highest object number
InitialSize == 4 * NumPages + 1
\* stream.bytes.byteLength of the fully loaded original file
InitialByteLength == 10 * NumPages
\* pdfDocument.startXRef of the original file: an offset inside the file
InitialStartXRef == InitialByteLength - 3

\* the view rectangle of page p (pdfPage.view), in user-space units
PageView(p) == << 0, 0, 612 + p, 792 >>

(* --------------------------- the annotate request --------------------- *)

\* an absent optional field of the request (author === undefined)
Undefined == [t |-> "undefined"]

\* The request of call c for page p.  The fractional coordinates are
\* xn/den and yn/den; author is supplied by every other call.
Request(c, p) ==
    [ page     |-> p,
      coords   |-> [xn |-> c % 3, yn |-> (c + 1) % 3, den |-> 2],
      contents |-> Str("hello"),
      author   |-> IF c % 2 = 1 THEN Str("A") ELSE Undefined ]

(* ------------------------ annotation_writer.js ------------------------ *)

\* the first significant decimal digit of num/den, for 0 < num < den
RECURSIVE firstDigit(_, _)
firstDigit(num, den) ==
    IF num >= den THEN num \div den ELSE firstDigit(num * 10, den)

\* parseInt(f * extent) for a fraction f = n/den >= 0.  parseInt converts the
\* Number to a string and reads its leading digits: a product of 1e-6 or more
\* prints in decimal notation and is truncated toward zero; a positive
\* product below 1e-6 prints as "d.ddde-N" (or "de-N") and yields its first
\* digit d.
parseIntOfProduct(n, den, extent) ==
    LET p == n * extent
    IN  IF p > 0 /\ p <= (den - 1) \div 1000000
        THEN firstDigit(p, den)
        ELSE p \div den

\* annotationDict(annotation, pdfPage): view[3] and view[4] are pdfPage.view[2]
\* and pdfPage.view[3], the upper right corner of the view rectangle
annotationDict(props, view) ==
    LET width  == view[3]
        height == view[4]
        x == parseIntOfProduct(props.coords.xn, props.coords.den, width)
        y == parseIntOfProduct(props.coords.yn, props.coords.den, height)
        d1 == set(EmptyDict, "Type", Name("Annot"))
        d2 == set(d1, "Rect", Arr(<< x, y, x + 12, y + 10 >>))
        d3 == set(d2, "Subtype", Name("Text"))
        d4 == set(d3, "Contents", props.contents)
    IN  IF props.author # Undefined
        THEN set(d4, "T", props.author)
        ELSE d4

\* newAnnotationDict as built inline by the second copy of
\* BasePdfManager.annotateDocument (pdf_manager.js:361-391) and by
\* annotateDocument of editing/annotating.js (lines 5-35): the request is
\* destructured as { page, coords, contents }, so author is never read
annotationDictInline(props, view) ==
    LET d1 == set(EmptyDict, "Type", Name("Annot"))
        d2 == set(d1, "Subtype", Name("Text"))
        d3 == set(d2, "Contents", props.contents)
        width  == view[3]
        height == view[4]
        x == parseIntOfProduct(props.coords.xn, props.coords.den, width)
        y == parseIntOfProduct(props.coords.yn, props.coords.den, height)
    IN  set(d3, "Rect", Arr(<< x, y, x + 12, y + 10 >>))

\* a Ref minted from an object number that is off by one
newAnnotationRefAfterIncrement(size) == Ref(size + 1, 0)

\* const newAnnotationRef = new Ref(size, 0);
newAnnotationRef(size) == Ref(size, 0)

\* the Size written back counts the rewritten page as a new object too
sizeAfterMintTwo(size) == size + 2

\* the Size is never written back
sizeAfterMintStale(size) == size

\* trailer.set('Size', size + 1);
sizeAfterMint(size) == size + 1

\* annotations.push(newAnnotationRef): the array grows in place
push(annots, ref) == Append(annots, ref)

\* for (var k of pageDict.getKeys()) if (k !== 'Annots') newPageDict.set(k, pageDict.getRaw(k))
RECURSIVE copyKeys(_, _, _, _)
copyKeys(from, keys, i, into) ==
    IF i > Len(keys)
    THEN into
    ELSE copyKeys(from, keys, i + 1,
                  IF keys[i] # "Annots"
                  THEN set(into, keys[i], getRaw(from, keys[i]))
                  ELSE into)

\* the copy loop stops one key short
newPageDictShort(oldDict, annots) ==
    LET keys == getKeys(oldDict)
    IN  set(copyKeys(oldDict, SubSeq(keys, 1, Len(keys) - 1), 1, EmptyDict),
            "Annots", Arr(annots))

\* newPageDict as built at lines 86-92: a new Dict, the copied keys, then Annots
newPageDict(oldDict, annots) ==
    set(copyKeys(oldDict, getKeys(oldDict), 1, EmptyDict), "Annots", Arr(annots))

\* the updated sequence is stored into the page's own Dictionary
pageDictSetInPlace(oldDict, annots) == set(oldDict, "Annots", Arr(annots))

\* pdfPage.pageDict after lines 85-92: it is only read (getKeys, getRaw)
pageDictAfterWrite(oldDict, annots) == oldDict

(* --------------------------- PDFDataWriter ---------------------------- *)

\* the length of one serialized object: header, one line per entry, endobj
ObjLen(dict) == Len(dict) + 2

\* the length of the cross-reference section and trailer for n objects
XRefLen(n) == n + 4

\* new PDFDataWriter(null, byteLength).setTrailer(trailer).setStartXRef(startXRef)
\*   .startObj(ref1).appendDict(dict1).endObj()
\*   .startObj(ref2).appendDict(dict2).endObj().appendTrailer().toUint8Array()
\* size is trailer.get('Size') at the time of appendTrailer.
PDFDataWriter(base, size, prev, ref1, dict1, ref2, dict2) ==
    LET off1 == base
        off2 == off1 + ObjLen(dict1)
        xref == off2 + ObjLen(dict2)
    IN  [ objects    |-> << [ref |-> ref1, dict |-> dict1, offset |-> off1],
                            [ref |-> ref2, dict |-> dict2, offset |-> off2] >>,
          xrefOffset |-> xref,
          trailer    |-> [Size |-> size, Prev |-> prev],
          length     |-> (xref - base) + XRefLen(2) ]

\* a writer chain that writes the page object before the annotation object
fragmentPageFirst(base, size, prev, annotRef, annotDict, pageRef, pageDictNew) ==
    PDFDataWriter(base, size, prev, pageRef, pageDictNew, annotRef, annotDict)

\* a writer that stamps the fragment with the number of fragments the
\* process has written before
fragmentStamped(base, size, prev, annotRef, annotDict, pageRef, pageDictNew) ==
    LET f == PDFDataWriter(base, size, prev, annotRef, annotDict, pageRef,
                           pageDictNew)
    IN  [f EXCEPT !.length = @ + Cardinality({ c \in Calls : pc[c] = "resolved" })]

\* the writer chain of writeAnnotation (lines 96-106): startObj(newAnnotationRef)
\* appendDict(newAnnotationDict) endObj, startObj(pageRef)
\* appendDict(newPageDict) endObj, appendTrailer
fragment(base, size, prev, annotRef, annotDict, pageRef, pageDictNew) ==
    PDFDataWriter(base, size, prev, annotRef, annotDict, pageRef, pageDictNew)

Settled(c) == pc[c] \in {"resolved", "rejected"}

\* a getter that starts the concatenation over again
onLoadedStreamAgain(promise) == "pending"

\* UpdatePdfManager.onLoadedStream(): return this._loadedStreamPromise, the
\* promise made once by the constructor
onLoadedStream(promise) == promise

\* call c was issued on the layered accessor: calls are numbered in the
\* order they are issued, and once the layered accessor exists it is the one
\* that is used
onLayered(c) == layer # "none" /\ c > callsAtBuild

\* streamManager.requestAllChunks(), reached through requestLoadedStream()
\* of the progressively-fetched accessor; requestLoadedStream() of the other
\* accessors does nothing, and their stream is loaded from the start
requestAllChunks(st) == IF st = "partial" THEN "requested" ELSE st

\* the bytes the stream of the first accessor holds: all of the file once
\* loaded, the first half of it before
streamBytes(st) ==
    IF st = "loaded" THEN InitialByteLength ELSE InitialByteLength \div 2

\* a continuation that runs as soon as the stream has not failed
streamDeliveredEarly(st) == st # "failed"

\* onLoadedStream() has resolved: the continuation of annotateDocument runs
streamDelivered(st) == st = "loaded"

\* stream.bytes.byteLength of the stream that onLoadedStream() of the
\* accessor of call c resolves with
streamByteLength(c) == IF onLayered(c) THEN byteLength ELSE streamBytes(stream)

\* call c has run lines 75-77
Minted(c) == pc[c] \in {"paging", "resolved", "rejected"}

(* ------------------------- the ensure protocol ------------------------ *)

\* byte offsets of the document are 0..(MaxOffset - 1)
MaxOffset == 2

\* an operation reads at most MaxReads ranges
MaxReads == 2

\* an ensure call invokes its operation at most MaxAttempts times
MaxAttempts == 3

AllBytes == 0..(MaxOffset - 1)

\* the byte ranges [begin, end) of the document
Ranges == { r \in [ begin : AllBytes, end : 1..MaxOffset ] : r.begin < r.end }

BytesOf(range) == range.begin..(range.end - 1)

\* new MissingDataException(begin, end), thrown by the stream of the
\* progressively-fetched document when a read touches absent bytes
MissingDataException(begin, end) ==
    [t |-> "error", name |-> "MissingDataException", begin |-> begin, end |-> end]

\* failures of the parsed-document layer that carry no byte range
OtherExceptions ==
    { [t |-> "error", name |-> "FormatError"],
      [t |-> "error", name |-> "XRefParseException"] }

\* the range request of the accessor was aborted or failed
AbortException == [t |-> "error", name |-> "AbortException"]

NoFault == [t |-> "none"]

\* an operation (obj, prop, args): the ranges it reads, in order, and the
\* failure it ends with once it has read them all, if any
SeqsUpTo(S, n) == UNION { [1..k -> S] : k \in 0..n }

Operations == [ reads : SeqsUpTo(Ranges, MaxReads), fault : {NoFault} \cup OtherExceptions ]

\* the value the operation returns when it completes
ValueOf(op) == [t |-> "value", reads |-> op.reads]

readable(range, res) == BytesOf(range) \subseteq res

\* the index of the first read of the operation that is not readable, 0 if none
firstMissing(op, res) ==
    IF \E i \in 1..Len(op.reads) : ~readable(op.reads[i], res)
    THEN CHOOSE i \in 1..Len(op.reads) :
            /\ ~readable(op.reads[i], res)
            /\ \A j \in 1..(i - 1) : readable(op.reads[j], res)
    ELSE 0

\* the ranges one invocation of the operation reads, from its first read on
readsOf(op, res) ==
    IF firstMissing(op, res) = 0 THEN op.reads
    ELSE SubSeq(op.reads, 1, firstMissing(op, res))

\* obj[prop] / value.apply(obj, args): one invocation of the operation from
\* scratch against the bytes that are resident
apply(op, res) ==
    LET m == firstMissing(op, res)
    IN  IF m # 0
        THEN [t |-> "throw",
              ex |-> MissingDataException(op.reads[m].begin, op.reads[m].end)]
        ELSE IF op.fault # NoFault
        THEN [t |-> "throw", ex |-> op.fault]
        ELSE [t |-> "return", value |-> ValueOf(op)]

\* ex instanceof MissingDataException
isMissingData(ex) == ex.name = "MissingDataException"

\* a request that starts at the signalled offset but runs to the end of the file
requestRangeToEnd(begin, end) == [begin |-> begin, end |-> MaxOffset]

\* the range NetworkPdfManager.requestRange passes to the stream manager
requestRange(begin, end) == [begin |-> begin, end |-> end]

\* a catch clause that asks for the signalled range twice
requestsAfterSignalTwice(reqs, ex) ==
    Append(Append(reqs, requestRange(ex.begin, ex.end)),
           requestRange(ex.begin, ex.end))

\* the catch clause of NetworkPdfManager.ensure asks for the signalled range
requestsAfterSignal(reqs, ex) == Append(reqs, requestRange(ex.begin, ex.end))

\* a failure replaced by a generic one on its way out
rethrownAsUnknown(ex) == [t |-> "error", name |-> "UnknownErrorException"]

\* throw ex: what the caller's promise is rejected with
rethrown(ex) == ex

\* a rejection that is caught and dropped: the pending future stays as it is
rejectionSwallowed(state) == state

\* a promise that is awaited, or chained with then(), without a handler for
\* its rejection: the pending future of the caller is rejected with it
rejectionPropagated(state) == "rejected"

\* every class retrying on missing data
catchesAlways(v) == TRUE

\* only NetworkPdfManager.ensure has a try/catch around the invocation
catches(v) == v = "network"

\* no Dictionary is being built
DictIdle ==
    /\ dictEntry = "none"
    /\ dictProps = Undefined
    /\ dictView = Undefined
    /\ dictOut = EmptyDict

\* the accessor of a freshly loaded document, no call issued yet
WriteInit ==
    /\ fileAnnots \in [PageIndices -> BOOLEAN]
    /\ trailerSize = InitialSize
    /\ startXRef = InitialStartXRef
    /\ byteLength = InitialByteLength
    /\ annotations = [p \in PageIndices |-> OriginalAnnotations(p)]
    /\ pageDict = [p \in PageIndices |-> OriginalPageDict(p)]
    /\ pc = [c \in Calls |-> "idle"]
    /\ annotation = [c \in Calls |-> Undefined]
    /\ local = [c \in Calls |-> Undefined]
    /\ result = [c \in Calls |-> Undefined]
    /\ settledBefore = [c \in Calls |-> {}]
    /\ seen = [c \in Calls |-> Undefined]

\* no ensure call was made; the whole file is in memory
EnsureIdle ==
    /\ variant = "local"
    /\ resident = AllBytes
    /\ epc = "idle"
    /\ eOp = Undefined
    /\ eResult = Undefined
    /\ signals = << >>
    /\ requests = << >>
    /\ reqState = "none"
    /\ attempts = 0
    /\ lastReads = << >>
    /\ wellFormed = TRUE

\* null
Null == [t |-> "null"]

\* the paint tasks of a page view, numbered in the order draw() makes them
Tasks == 1..MaxDraws

\* no paint task was made
NoTask == [status |-> "none", cancelled |-> FALSE]

\* new PDFPageView(options), lines 64-118: no page, nothing painted
ViewIdle ==
    /\ renderer = "canvas"
    /\ useOnlyCssZoom = FALSE
    /\ pdfPage = FALSE
    /\ renderingState = "INITIAL"
    /\ paintTask = 0
    /\ resume = 0
    /\ textLayer = FALSE
    /\ annotationLayer = FALSE
    /\ canvas = FALSE
    /\ svg = FALSE
    /\ zoomLayer = FALSE
    /\ error = "null"
    /\ tasks = [k \in Tasks |-> NoTask]
    /\ rendered = << >>
    /\ ran = [op |-> "constructor"]

\* new PDFAnnotationEditor(...), lines 5-17: switched off, no edit box, no
\* keyup listener
EditorIdle ==
    /\ active = FALSE
    /\ toggled = FALSE
    /\ listeners = {}
    /\ binds = 0
    /\ editor = Null
    /\ input = Null
    /\ coordinates = Null
    /\ page = Null
    /\ boxes = 0
    /\ dispatched = << >>
    /\ handled = Null
    /\ opener = Null

\* no capability was called
CapsIdle == capLog = << >> /\ password = "none"

NoOperation == [op |-> "none", layer |-> "none"]

\* no layered accessor was built
LayerIdle ==
    /\ layer = "none"
    /\ updatedData = 0
    /\ callsAtBuild = 0
    /\ applied = NoOperation

\* new Stream(data): the whole file is in memory (LocalPdfManager)
StreamLoaded == stream = "loaded"

Init ==
    WriteInit /\ DictIdle /\ EnsureIdle /\ CapsIdle /\ LayerIdle /\ StreamLoaded
        /\ EditorIdle
        /\ ViewIdle

(* ------------------------------ actions ------------------------------- *)

\* BasePdfManager.annotateDocument(annotation): requestLoadedStream(), then
\* onLoadedStream().then(...) leaves the continuation pending.  Calls are
\* numbered in the order they are issued.
annotateDocumentWith(c, req) ==
    /\ pc[c] = "idle"
    /\ IF c = 1 THEN TRUE ELSE pc[c - 1] # "idle"
    /\ pc' = [pc EXCEPT ![c] = "loading"]
    /\ annotation' = [annotation EXCEPT ![c] = req]
    /\ settledBefore' = [settledBefore EXCEPT ![c] = {d \in Calls : Settled(d)}]
    /\ stream' = IF layer # "none" THEN stream ELSE requestAllChunks(stream)
    /\ UNCHANGED << editorVars, viewVars >>
    /\ layer' = IF layer # "none" THEN onLoadedStream(layer) ELSE layer
    /\ UNCHANGED << trailerSize, startXRef, byteLength, annotations, pageDict,
                    local, result, seen, fileAnnots >>
    /\ UNCHANGED << dictVars, ensureVars, capVars, updatedData, callsAtBuild,
                    applied >>

\* call c carrying the request the model gives call c for page p
annotateDocument(c, p) == annotateDocumentWith(c, Request(c, p))

\* The continuation of onLoadedStream(): writeAnnotation(pdfDocument,
\* annotation, stream.bytes.byteLength) up to the call of getPage (lines 67-79).
writeAnnotation(c) ==
    /\ pc[c] = "loading"
    /\ IF onLayered(c) THEN layer = "ready" ELSE streamDelivered(stream)
    /\ LET size == trailerSize
       IN  /\ local' = [local EXCEPT ![c] =
                          [ byteLength       |-> streamByteLength(c),
                            startXRef        |-> startXRef,
                            size             |-> size,
                            newAnnotationRef |-> newAnnotationRef(size) ]]
           /\ trailerSize' = sizeAfterMint(size)
    /\ pc' = [pc EXCEPT ![c] = "paging"]
    /\ UNCHANGED << startXRef, byteLength, annotations, pageDict,
                    annotation, result, settledBefore, seen, fileAnnots >>
    /\ UNCHANGED << otherVars, streamVars,
                    editorVars, viewVars >>

\* The continuation of getPage(page) for a page that exists (lines 79-107).
getPageThen(c) ==
    /\ pc[c] = "paging"
    /\ annotation[c].page \in PageIndices
    /\ LET p        == annotation[c].page
           pageRef  == PageRef(p)
           annots   == push(annotations[p], local[c].newAnnotationRef)
           newDict  == newPageDict(pageDict[p], annots)
           newAnnot == annotationDict(annotation[c], PageView(p))
       IN  /\ annotations' = [annotations EXCEPT ![p] = annots]
           /\ pageDict' = [pageDict EXCEPT ![p] = pageDictAfterWrite(pageDict[p], annots)]
           /\ result' = [result EXCEPT ![c] =
                           fragment(local[c].byteLength, trailerSize,
                                    local[c].startXRef,
                                    local[c].newAnnotationRef, newAnnot,
                                    pageRef, newDict)]
           /\ seen' = [seen EXCEPT ![c] =
                         [ trailerSize |-> trailerSize,
                           annotations |-> annotations[p],
                           pageDict    |-> pageDict[p] ]]
    /\ pc' = [pc EXCEPT ![c] = "resolved"]
    /\ UNCHANGED << trailerSize, startXRef, byteLength, annotation, local,
                    settledBefore, fileAnnots >>
    /\ UNCHANGED << otherVars, streamVars,
                    editorVars, viewVars >>

\* getPage(page) fails for a page index out of range: the promise returned by
\* writeAnnotation, and so by annotateDocument, is rejected.
getPageRejected(c) ==
    /\ pc[c] = "paging"
    /\ annotation[c].page \notin PageIndices
    /\ pc' = [pc EXCEPT ![c] = "rejected"]
    /\ UNCHANGED << trailerSize, startXRef, byteLength, annotations, pageDict,
                    annotation, local, result, settledBefore, seen,
                    fileAnnots >>
    /\ UNCHANGED << otherVars, streamVars,
                    editorVars, viewVars >>

Next ==
    \/ \E c \in Calls, p \in RequestPages : annotateDocument(c, p)
    \/ \E c \in Calls : writeAnnotation(c)
    \/ \E c \in Calls : getPageThen(c)
    \/ \E c \in Calls : getPageRejected(c)

Spec == Init /\ [][Next]_vars

(* ------------- building the annotation Dictionary, alone -------------- *)

\* the annotate entry points of the source
EntryPoints == { "annotation_writer.js", "pdf_manager.js:361", "editing/annotating.js" }

\* view rectangles [x0, y0, x1, y1]: a letter page, a page whose view does
\* not start at the origin, a small page
Views == { << 0, 0, 612, 792 >>, << 10, 20, 610, 812 >>, << 0, 0, 72, 90 >> }

\* fractional coordinates in [0, 1] as xn/den and yn/den
Coordinates ==
    [ xn : 0..2, yn : 0..2, den : {2} ] \cup [ xn : 0..2, yn : 0..2, den : {100000000} ]

\* requests: contents, and author supplied or not
DictRequests ==
    [ coords : Coordinates, contents : {Str("hello")}, author : {Undefined, Str("A")} ]

DictInit ==
    /\ dictEntry \in EntryPoints
    /\ dictProps \in DictRequests
    /\ dictView \in Views
    /\ dictOut = EmptyDict
    /\ WriteInit
    /\ \A p \in PageIndices : ~fileAnnots[p]
    /\ EnsureIdle
    /\ CapsIdle
    /\ LayerIdle
    /\ EditorIdle
    /\ ViewIdle
    /\ StreamLoaded

\* the entry point builds newAnnotationDict for the request and the page
buildAnnotationDict ==
    /\ dictOut = EmptyDict
    /\ dictEntry # "none"
    /\ dictOut' = IF dictEntry = "annotation_writer.js"
                  THEN annotationDict(dictProps, dictView)
                  ELSE annotationDictInline(dictProps, dictView)
    /\ UNCHANGED << dictEntry, dictProps, dictView, notDictVars >>

DictNext == buildAnnotationDict

SpecDict == DictInit /\ [][DictNext]_vars

(* --------------------------- one ensure call --------------------------- *)

\* an accessor of any class; the progressively-fetched one holds any part of
\* the file, and so does the layered one, which shares the document of the
\* accessor it was built on
EnsureInit ==
    /\ variant \in { "local", "network", "layered" }
    /\ resident \in SUBSET AllBytes
    /\ variant = "local" => resident = AllBytes
    /\ epc = "idle"
    /\ eOp = Undefined
    /\ eResult = Undefined
    /\ signals = << >>
    /\ requests = << >>
    /\ reqState = "none"
    /\ attempts = 0
    /\ lastReads = << >>
    /\ wellFormed = TRUE
    /\ WriteInit
    /\ \A p \in PageIndices : ~fileAnnots[p]
    /\ DictIdle
    /\ CapsIdle
    /\ LayerIdle
    /\ EditorIdle
    /\ ViewIdle
    /\ StreamLoaded

\* the body of ensure(obj, prop, args): invoke the operation; return its value,
\* rethrow its failure, or (NetworkPdfManager only) catch a
\* MissingDataException, request its range and wait
invoke(op) ==
    LET out == apply(op, resident)
    IN  /\ attempts' = attempts + 1
        /\ lastReads' = readsOf(op, resident)
        /\ IF out.t = "return"
           THEN /\ epc' = "resolved"
                /\ eResult' = out.value
                /\ reqState' = "none"
                /\ UNCHANGED << signals, requests >>
           ELSE IF catches(variant) /\ isMissingData(out.ex)
           THEN /\ epc' = "waiting"
                /\ signals' = Append(signals, out.ex)
                /\ requests' = requestsAfterSignal(requests, out.ex)
                /\ reqState' = "requested"
                /\ UNCHANGED eResult
           ELSE /\ epc' = "rejected"
                /\ eResult' = rethrown(out.ex)
                /\ reqState' = "none"
                /\ UNCHANGED << signals, requests >>

\* a caller calls ensure(obj, prop, args)
ensure(op) ==
    /\ epc = "idle"
    /\ eOp' = op
    /\ invoke(op)
    /\ UNCHANGED << variant, resident, wellFormed, notEnsureVars >>

\* the Byte-Range Source delivers the requested range: its bytes are resident
rangeLoaded ==
    /\ reqState = "requested"
    /\ reqState' = "completed"
    /\ resident' = resident \cup BytesOf(requests[Len(requests)])
    /\ UNCHANGED << variant, epc, eOp, eResult, signals, requests, attempts,
                    lastReads, wellFormed, notEnsureVars >>

\* the request completes although the bytes did not become resident
rangeLoadedNotResident ==
    /\ reqState = "requested"
    /\ attempts < MaxAttempts
    /\ reqState' = "completed"
    /\ wellFormed' = FALSE
    /\ UNCHANGED << variant, resident, epc, eOp, eResult, signals, requests,
                    attempts, lastReads, notEnsureVars >>

\* the request fails: await this.requestRange(...) throws out of ensure
requestRangeRejected ==
    /\ reqState = "requested"
    /\ reqState' = "none"
    /\ epc' = rejectionPropagated(epc)
    /\ eResult' = AbortException
    /\ wellFormed' = FALSE
    /\ UNCHANGED << variant, resident, eOp, signals, requests, attempts,
                    lastReads, notEnsureVars >>

\* after the await: return this.ensure(obj, prop, args)
retryEnsure ==
    /\ epc = "waiting"
    /\ reqState = "completed"
    /\ invoke(eOp)
    /\ UNCHANGED << variant, resident, eOp, wellFormed, notEnsureVars >>

EnsureNext ==
    \/ \E op \in Operations : ensure(op)
    \/ rangeLoaded
    \/ rangeLoadedNotResident
    \/ requestRangeRejected
    \/ retryEnsure

SpecEnsure == EnsureInit /\ [][EnsureNext]_vars

(* ------------------- the other capabilities, called ------------------- *)

\* at most MaxCapCalls capability calls are made on the accessor
MaxCapCalls == 2

\* unreachable(msg) of shared/util: throws an Error
unreachable(cap) == [cap |-> cap, outcome |-> "threw"]

\* a method that returns undefined
returned(cap) == [cap |-> cap, outcome |-> "returned"]

\* a method that returns Promise.resolve()
resolvedPromise(cap) == [cap |-> cap, outcome |-> "resolved"]

\* a method that returns a promise of the stream manager, not settled yet
pendingPromise(cap) == [cap |-> cap, outcome |-> "pending"]

\* the classes that define the method themselves; the others inherit
\* BasePdfManager's
overrides(cap) ==
    CASE cap = "requestRange" -> { "local", "network", "layered" }
      [] cap = "requestLoadedStream" -> { "local", "network", "layered" }
      [] cap = "terminate" -> { "local", "network", "layered" }
      [] cap = "sendProgressiveData" -> { "network" }

\* the lowest byte offsets that are not resident yet, up to one chunk
nextChunk(res) ==
    IF res = AllBytes THEN {}
    ELSE { CHOOSE b \in AllBytes \ res : \A c \in AllBytes \ res : b <= c }

CapsInit ==
    /\ variant \in { "local", "network", "layered" }
    /\ resident \in SUBSET AllBytes
    /\ variant = "local" => resident = AllBytes
    /\ epc = "idle"
    /\ eOp = Undefined
    /\ eResult = Undefined
    /\ signals = << >>
    /\ requests = << >>
    /\ reqState = "none"
    /\ attempts = 0
    /\ lastReads = << >>
    /\ wellFormed = TRUE
    /\ capLog = << >>
    /\ password = "none"
    /\ WriteInit
    /\ \A p \in PageIndices : ~fileAnnots[p]
    /\ DictIdle
    /\ LayerIdle
    /\ EditorIdle
    /\ ViewIdle
    /\ StreamLoaded

\* pdfManager.requestRange(begin, end)
callRequestRange(range) ==
    /\ Len(capLog) < MaxCapCalls
    /\ IF variant = "network"
       THEN /\ requests' = Append(requests, requestRange(range.begin, range.end))
            /\ reqState' = "requested"
            /\ capLog' = Append(capLog, pendingPromise("requestRange"))
       ELSE /\ capLog' = Append(capLog, resolvedPromise("requestRange"))
            /\ UNCHANGED << requests, reqState >>
    /\ UNCHANGED << variant, resident, epc, eOp, eResult, signals, attempts,
                    lastReads, wellFormed, password, writeVars, dictVars,
                    layerVars, streamVars,
                    editorVars, viewVars >>

\* pdfManager.requestLoadedStream(): the stream manager of the
\* progressively-fetched accessor requests all chunks
callRequestLoadedStream ==
    /\ Len(capLog) < MaxCapCalls
    /\ capLog' = Append(capLog, returned("requestLoadedStream"))
    /\ IF variant = "network"
       THEN /\ requests' = Append(requests, requestRange(0, MaxOffset))
            /\ reqState' = "requested"
       ELSE UNCHANGED << requests, reqState >>
    /\ UNCHANGED << variant, resident, epc, eOp, eResult, signals, attempts,
                    lastReads, wellFormed, password, writeVars, dictVars,
                    layerVars, streamVars,
                    editorVars, viewVars >>

\* pdfManager.sendProgressiveData(chunk)
callSendProgressiveData ==
    /\ Len(capLog) < MaxCapCalls
    /\ IF variant \in overrides("sendProgressiveData")
       THEN /\ resident' = resident \cup nextChunk(resident)
            /\ capLog' = Append(capLog, returned("sendProgressiveData"))
       ELSE /\ capLog' = Append(capLog, unreachable("sendProgressiveData"))
            /\ UNCHANGED resident
    /\ UNCHANGED << variant, epc, eOp, eResult, signals, requests, reqState,
                    attempts, lastReads, wellFormed, password, writeVars, dictVars,
                    layerVars, streamVars,
                    editorVars, viewVars >>

\* pdfManager.terminate(reason): the stream manager of the
\* progressively-fetched accessor aborts its requests
callTerminate ==
    /\ Len(capLog) < MaxCapCalls
    /\ capLog' = Append(capLog, returned("terminate"))
    /\ IF variant = "network"
       THEN reqState' = "none"
       ELSE UNCHANGED reqState
    /\ UNCHANGED << variant, resident, epc, eOp, eResult, signals, requests,
                    attempts, lastReads, wellFormed, password, writeVars, dictVars,
                    layerVars, streamVars,
                    editorVars, viewVars >>

CapsNext ==
    \/ \E range \in Ranges : callRequestRange(range)
    \/ callRequestLoadedStream
    \/ callSendProgressiveData
    \/ callTerminate

SpecCaps == CapsInit /\ [][CapsNext]_vars

(* ------------------------ the layered accessor ------------------------- *)

\* pdfDocument.update(accessor, stream): the document is parsed again from
\* the stream that ends with the appended fragment.  The trailer and
\* startXRef are the fragment's; the page the fragment rewrites is read from
\* the fragment, the other pages from the original file.
\* an update that keeps the trailer of the original file
originalTrailerSize(f) == InitialSize

updatedTrailerSize(f) == f.trailer.Size

updatedStartXRef(f) == f.xrefOffset

updatedPageDict(f, p) ==
    IF f.objects[2].ref = PageRef(p) THEN f.objects[2].dict ELSE OriginalPageDict(p)

updatedAnnotations(f, p) ==
    IF f.objects[2].ref = PageRef(p)
    THEN getRaw(f.objects[2].dict, "Annots").a
    ELSE OriginalAnnotations(p)

\* the fragment an earlier session appended to the file: one annotation on
\* page 0, written by writeAnnotation against the original file
StoredFragment ==
    fragment(InitialByteLength, InitialSize + 1, InitialStartXRef,
             Ref(InitialSize, 0), annotationDict(Request(1, 0), PageView(0)),
             PageRef(0),
             newPageDict(OriginalPageDict(0),
                         push(OriginalAnnotations(0), Ref(InitialSize, 0))))

\* the bytes passed to the constructor as updatedData
updatedFragment == IF updatedData = 0 THEN StoredFragment ELSE result[updatedData]

\* new UpdatePdfManager(oldPdfManager, updatedData) with the fragment that
\* call c returned: the document is shared, the concatenation is left pending
UpdatePdfManager(c) ==
    /\ layer = "none"
    /\ pc[c] = "resolved"
    /\ layer' = "pending"
    /\ updatedData' = c
    /\ callsAtBuild' = Cardinality({ d \in Calls : pc[d] # "idle" })
    /\ stream' = requestAllChunks(stream)
    /\ UNCHANGED << editorVars, viewVars >>
    /\ UNCHANGED << applied, writeVars, dictVars, ensureVars, capVars >>

\* the continuation of oldPdfManager.onLoadedStream() in the constructor:
\* concatenate, pdfDocument.update(this, stream), resolve _loadedStreamPromise
concatThen ==
    /\ layer = "pending"
    /\ streamDelivered(stream)
    /\ layer' = "ready"
    /\ LET f == updatedFragment
       IN  /\ byteLength' = byteLength + f.length
           /\ trailerSize' = updatedTrailerSize(f)
           /\ startXRef' = updatedStartXRef(f)
           /\ pageDict' = [p \in PageIndices |-> updatedPageDict(f, p)]
           /\ annotations' = [p \in PageIndices |-> updatedAnnotations(f, p)]
    /\ UNCHANGED << updatedData, callsAtBuild, applied, pc, annotation, local,
                    result, settledBefore, seen, fileAnnots, dictVars,
                    ensureVars,
                    capVars, streamVars,
                    editorVars, viewVars >>

\* UpdatePdfManager.ensure(obj, prop, args), reached through ensureDoc,
\* ensureXRef or ensureCatalog: obj[prop] is read or applied at once
layeredEnsure ==
    /\ layer # "none"
    /\ applied' = [op |-> "ensure", layer |-> layer]
    /\ applied' # applied
    /\ UNCHANGED << layer, updatedData, callsAtBuild, writeVars, dictVars,
                    ensureVars, capVars, streamVars,
                    editorVars, viewVars >>

\* BasePdfManager.getPage(pageIndex) on the layered accessor:
\* this.pdfDocument.getPage(pageIndex) at once
layeredGetPage ==
    /\ layer # "none"
    /\ applied' = [op |-> "getPage", layer |-> layer]
    /\ applied' # applied
    /\ UNCHANGED << layer, updatedData, callsAtBuild, writeVars, dictVars,
                    ensureVars, capVars, streamVars,
                    editorVars, viewVars >>

\* a file whose first page alone has an Annots entry
UpdateInit ==
    /\ WriteInit
    /\ \A p \in PageIndices : fileAnnots[p] = (p = 0)
    /\ DictIdle
    /\ EnsureIdle
    /\ CapsIdle
    /\ LayerIdle
    /\ EditorIdle
    /\ ViewIdle
    /\ StreamLoaded

UpdateNext ==
    \/ \E c \in Calls, p \in RequestPages : annotateDocument(c, p)
    \/ \E c \in Calls : writeAnnotation(c)
    \/ \E c \in Calls : getPageThen(c)
    \/ \E c \in Calls : getPageRejected(c)
    \/ \E c \in Calls : UpdatePdfManager(c)
    \/ concatThen
    \/ layeredEnsure
    \/ layeredGetPage

SpecUpdate == UpdateInit /\ [][UpdateNext]_vars

(* ------------------- the progressively-fetched accessor ---------------- *)

\* the operations of the ensure call made next to the annotate calls: at
\* most one read, no failure of their own
NetOperations == { op \in Operations : Len(op.reads) <= 1 /\ op.fault = NoFault }

\* new NetworkPdfManager(...): nothing of the file is resident yet
NetworkInit ==
    /\ WriteInit
    /\ \A p \in PageIndices : ~fileAnnots[p]
    /\ DictIdle
    /\ CapsIdle
    /\ LayerIdle
    /\ EditorIdle
    /\ ViewIdle
    /\ variant = "network"
    /\ resident = {}
    /\ epc = "idle"
    /\ eOp = Undefined
    /\ eResult = Undefined
    /\ signals = << >>
    /\ requests = << >>
    /\ reqState = "none"
    /\ attempts = 0
    /\ lastReads = << >>
    /\ wellFormed = TRUE
    /\ stream = "partial"

\* the Byte-Range Source has delivered all chunks: onLoadedStream() resolves
streamLoaded ==
    /\ stream = "requested"
    /\ stream' = "loaded"
    /\ UNCHANGED << editorVars, viewVars >>
    /\ resident' = AllBytes
    /\ UNCHANGED << variant, epc, eOp, eResult, signals, requests, reqState,
                    attempts, lastReads, wellFormed, writeVars, dictVars,
                    capVars, layerVars >>

\* the Byte-Range Source reports a failure while all chunks are asked for:
\* onLoadedStream() rejects
streamFailed ==
    /\ stream = "requested"
    /\ stream' = "failed"
    /\ UNCHANGED << editorVars, viewVars >>
    /\ UNCHANGED << ensureVars, writeVars, dictVars, capVars, layerVars >>

\* NetworkPdfManager.terminate(reason): streamManager.abort(reason) rejects
\* the promise of the loaded stream and of the range request in flight; the
\* await of ensure throws
terminate ==
    /\ stream \in { "partial", "requested" } \/ reqState = "requested"
    /\ stream' = IF stream = "loaded" THEN stream ELSE "failed"
    /\ UNCHANGED << editorVars, viewVars >>
    /\ IF reqState = "requested"
       THEN /\ reqState' = "none"
            /\ epc' = rejectionPropagated(epc)
            /\ eResult' = AbortException
            /\ wellFormed' = FALSE
       ELSE UNCHANGED << reqState, epc, eResult, wellFormed >>
    /\ UNCHANGED << variant, resident, eOp, signals, requests, attempts,
                    lastReads, writeVars, dictVars, capVars, layerVars >>

\* onLoadedStream() has rejected: the promise of then(...) in
\* annotateDocument, which has no rejection handler, rejects; the writer
\* does not run
loadedStreamRejected(c) ==
    /\ pc[c] = "loading"
    /\ IF onLayered(c) THEN layer = "rejected" ELSE stream = "failed"
    /\ pc' = [pc EXCEPT ![c] = rejectionPropagated(pc[c])]
    /\ UNCHANGED << trailerSize, startXRef, byteLength, annotations, pageDict,
                    annotation, local, result, settledBefore, seen,
                    fileAnnots >>
    /\ UNCHANGED << otherVars, streamVars,
                    editorVars, viewVars >>

NetworkNext ==
    \/ \E c \in Calls, p \in RequestPages : annotateDocument(c, p)
    \/ \E c \in Calls : writeAnnotation(c)
    \/ \E c \in Calls : getPageThen(c)
    \/ \E c \in Calls : getPageRejected(c)
    \/ \E c \in Calls : loadedStreamRejected(c)
    \/ streamLoaded
    \/ streamFailed
    \/ terminate
    \/ \E op \in NetOperations : ensure(op)
    \/ rangeLoaded
    \/ requestRangeRejected
    \/ retryEnsure

SpecNetwork == NetworkInit /\ [][NetworkNext]_vars

(* ------------- a layered accessor over a stream still loading ---------- *)

\* new UpdatePdfManager(oldPdfManager, updatedData) with bytes kept from an
\* earlier session
UpdatePdfManagerStored ==
    /\ layer = "none"
    /\ layer' = "pending"
    /\ updatedData' = 0
    /\ callsAtBuild' = Cardinality({ d \in Calls : pc[d] # "idle" })
    /\ stream' = requestAllChunks(stream)
    /\ UNCHANGED << editorVars, viewVars >>
    /\ UNCHANGED << applied, writeVars, dictVars, ensureVars, capVars >>

\* oldPdfManager.onLoadedStream() has rejected: the then() of the constructor
\* has no rejection handler, so _loadedStreamPromise rejects and the
\* concatenation and pdfDocument.update do not run
concatRejected ==
    /\ layer = "pending"
    /\ stream = "failed"
    /\ layer' = rejectionPropagated(layer)
    /\ UNCHANGED << updatedData, callsAtBuild, applied, writeVars, dictVars,
                    ensureVars, capVars, streamVars,
                    editorVars, viewVars >>

\* a caller calls onLoadedStream() of the layered accessor
layeredOnLoadedStream ==
    /\ layer # "none"
    /\ layer' = onLoadedStream(layer)
    /\ applied' = [op |-> "onLoadedStream", layer |-> layer]
    /\ applied' # applied
    /\ UNCHANGED << updatedData, callsAtBuild, writeVars, dictVars,
                    ensureVars, capVars, streamVars,
                    editorVars, viewVars >>

\* a NetworkPdfManager whose stream is still partial, of a file whose pages
\* have no Annots entry
LayerInit ==
    /\ WriteInit
    /\ \A p \in PageIndices : ~fileAnnots[p]
    /\ DictIdle
    /\ CapsIdle
    /\ LayerIdle
    /\ EditorIdle
    /\ ViewIdle
    /\ stream = "partial"
    /\ variant = "network"
    /\ resident = {}
    /\ epc = "idle"
    /\ eOp = Undefined
    /\ eResult = Undefined
    /\ signals = << >>
    /\ requests = << >>
    /\ reqState = "none"
    /\ attempts = 0
    /\ lastReads = << >>
    /\ wellFormed = TRUE

LayerNext ==
    \/ UpdatePdfManagerStored
    \/ concatThen
    \/ concatRejected
    \/ layeredOnLoadedStream
    \/ streamLoaded
    \/ streamFailed
    \/ \E c \in Calls, p \in RequestPages : annotateDocument(c, p)
    \/ \E c \in Calls : writeAnnotation(c)
    \/ \E c \in Calls : getPageThen(c)
    \/ \E c \in Calls : getPageRejected(c)
    \/ \E c \in Calls : loadedStreamRejected(c)

SpecLayer == LayerInit /\ [][LayerNext]_vars

(* ------------------ two runs of the writer, compared ------------------ *)

\* The file is opened again: a new accessor and a new parsed document over
\* the original bytes (the LocalPdfManager constructor), once no call is
\* outstanding.  The fragments of the earlier calls are kept, to be compared
\* with those of the calls that follow.
reopen ==
    /\ \E c \in Calls : pc[c] = "idle"
    /\ \A c \in Calls : pc[c] = "idle" \/ Settled(c)
    /\ trailerSize' = InitialSize
    /\ startXRef' = InitialStartXRef
    /\ byteLength' = InitialByteLength
    /\ annotations' = [p \in PageIndices |-> OriginalAnnotations(p)]
    /\ pageDict' = [p \in PageIndices |-> OriginalPageDict(p)]
    /\ << trailerSize', annotations', pageDict' >> #
          << trailerSize, annotations, pageDict >>
    /\ UNCHANGED << pc, annotation, local, result, settledBefore, seen,
                    fileAnnots, otherVars, streamVars,
                    editorVars, viewVars >>

\* a file whose first page alone has an Annots entry
RunsInit ==
    /\ Init
    /\ \A p \in PageIndices : fileAnnots[p] = (p = 0)

\* a call may carry the request of any call: two runs may be given equal
\* requests
RunsNext ==
    \/ \E c \in Calls, k \in Calls, p \in RequestPages :
          annotateDocumentWith(c, Request(k, p))
    \/ \E c \in Calls : writeAnnotation(c)
    \/ \E c \in Calls : getPageThen(c)
    \/ \E c \in Calls : getPageRejected(c)
    \/ reopen

SpecRuns == RunsInit /\ [][RunsNext]_vars

(* ---------- every operation of the accessor, on one document ---------- *)

\* the passwords a caller may supply
Passwords == { "owner", "user" }

\* BasePdfManager.updatePassword(password): this._password = password
updatePassword(pw) ==
    /\ password # pw
    /\ password' = pw
    /\ UNCHANGED << capLog, writeVars, dictVars, ensureVars, layerVars,
                    streamVars,
                    editorVars, viewVars >>

\* a getPage that registers the page it returns as a new object
sizeAfterGetPageMinting(size) == size + 1

\* PDFDocument.getPage(pageIndex) looks the page up in the page tree; it
\* leaves the trailer as it is
sizeAfterGetPage(size) == size

\* BasePdfManager.getPage(pageIndex): returns the promise of
\* this.pdfDocument.getPage(pageIndex)
getPage(p) ==
    /\ Len(capLog) < MaxCapCalls
    /\ capLog' = Append(capLog, pendingPromise("getPage"))
    /\ trailerSize' = sizeAfterGetPage(trailerSize)
    /\ UNCHANGED << startXRef, byteLength, annotations, pageDict, pc,
                    annotation, local, result, settledBefore, seen,
                    fileAnnots >>
    /\ UNCHANGED << password, dictVars, ensureVars, layerVars, streamVars,
                    editorVars, viewVars >>

\* an accessor of any class over a file whose pages have no Annots entry;
\* the stream of the progressively-fetched one is still partial
SharedInit ==
    /\ WriteInit
    /\ \A p \in PageIndices : ~fileAnnots[p]
    /\ DictIdle
    /\ CapsIdle
    /\ LayerIdle
    /\ EditorIdle
    /\ ViewIdle
    /\ variant \in { "local", "network", "layered" }
    /\ resident = IF variant = "network" THEN {} ELSE AllBytes
    /\ stream = IF variant = "network" THEN "partial" ELSE "loaded"
    /\ epc = "idle"
    /\ eOp = Undefined
    /\ eResult = Undefined
    /\ signals = << >>
    /\ requests = << >>
    /\ reqState = "none"
    /\ attempts = 0
    /\ lastReads = << >>
    /\ wellFormed = TRUE

\* One annotate call, one ensure call and the capability calls, interleaved.
\* reqState is the state of the one range request the model follows: a
\* caller's own requestRange is issued while ensure is not waiting for its
\* request, and ensure is called while no caller's request is outstanding.
SharedNext ==
    \/ \E p \in RequestPages : annotateDocument(1, p)
    \/ writeAnnotation(1)
    \/ getPageThen(1)
    \/ getPageRejected(1)
    \/ loadedStreamRejected(1)
    \/ streamLoaded
    \/ streamFailed
    \/ \E op \in NetOperations : reqState # "requested" /\ ensure(op)
    \/ epc = "waiting" /\ rangeLoaded
    \/ epc = "waiting" /\ requestRangeRejected
    \/ retryEnsure
    \/ (reqState = "requested" => epc = "waiting") /\ terminate
    \/ variant # "network" /\ callTerminate
    \/ \E range \in Ranges : epc # "waiting" /\ callRequestRange(range)
    \/ epc # "waiting" /\ callRequestLoadedStream
    \/ callSendProgressiveData
    \/ \E p \in RequestPages : getPage(p)
    \/ \E pw \in Passwords : updatePassword(pw)

SpecShared == SharedInit /\ [][SharedNext]_vars

(* ------------- the annotation editor (src/unnamed/part_000) ----------- *)

ENTER_KEY == 13
ESCAPE_KEY == 27
\* a key that is neither of them
OTHER_KEY == 65

\* the prototype's handleKeyPress, as a listener; the functions made by
\* handleKeyPress.bind(this) are numbered from 1
handleKeyPressMethod == 0

\* what the user has typed into the textarea
Texts == { "", "note" }

\* the click events of the page views (web/pdf_page_view.js:107-114): x, y
\* are viewport pixels, offsetX and offsetY tenths of the page's width and
\* height, page the id of the page view
PageClicks ==
    [ x : { 100, 200 }, y : { 300 }, offsetX : { 1, 9 }, offsetY : { 5 },
      page : 1..NumPages ]

KeyCodes == { ENTER_KEY, ESCAPE_KEY, OTHER_KEY }

\* the editor and what it acts on, as one value
this ==
    [ active |-> active, toggled |-> toggled, listeners |-> listeners,
      binds |-> binds, editor |-> editor, input |-> input,
      coordinates |-> coordinates, page |-> page, boxes |-> boxes,
      dispatched |-> << >> ]

\* EventTarget.addEventListener: a listener already registered is not
\* registered twice
addEventListener(ls, f) == ls \cup { f }

\* EventTarget.removeEventListener: removes the listener that is this very
\* function, if it is registered
removeEventListener(ls, f) == ls \ { f }

\* on(): lines 18-22; handleKeyPress.bind(this) is a new function each time
on(s) ==
    [s EXCEPT !.active = TRUE,
              !.toggled = TRUE,
              !.binds = @ + 1,
              !.listeners = addEventListener(@, s.binds + 1)]

\* off(): lines 23-27; the function handed to removeEventListener is the
\* prototype's method, not one of the bound functions
off(s) ==
    [s EXCEPT !.active = FALSE,
              !.toggled = FALSE,
              !.listeners = removeEventListener(@, handleKeyPressMethod)]

\* toggle(): lines 28-34
toggle(s) == IF s.active THEN off(s) ELSE on(s)

\* eventBus.dispatch('createannotation', text, this.page, this.coordinates)
createannotation(text, pg, coords) ==
    [ name |-> "createannotation", text |-> text, page |-> pg,
      coordinates |-> coords ]

\* an escapeEditing that dispatches and leaves the edit box open
escapeEditingKeepsBox(s, submit) ==
    IF s.editor = Null THEN s
    ELSE IF submit
    THEN [s EXCEPT !.dispatched =
                     Append(@, createannotation(s.input.value, s.page,
                                                s.coordinates))]
    ELSE [s EXCEPT !.boxes = @ - 1, !.editor = Null, !.input = Null,
                   !.coordinates = Null, !.page = Null]

\* an escapeEditing that forgets to clear this.page
escapeEditingKeepsPage(s, submit) ==
    IF s.editor = Null THEN s
    ELSE [s EXCEPT !.dispatched =
                     IF submit
                     THEN Append(@, createannotation(s.input.value, s.page,
                                                     s.coordinates))
                     ELSE @,
                   !.boxes = @ - 1, !.editor = Null, !.input = Null,
                   !.coordinates = Null]

\* escapeEditing(submit): lines 72-86
escapeEditing(s, submit) ==
    IF s.editor = Null THEN s
    ELSE [s EXCEPT !.dispatched =
                     IF submit
                     THEN Append(@, createannotation(s.input.value, s.page,
                                                     s.coordinates))
                     ELSE @,
                   !.boxes = @ - 1,
                   !.editor = Null,
                   !.input = Null,
                   !.coordinates = Null,
                   !.page = Null]

\* handleKeyPress({ keyCode }): lines 35-43
handleKeyPress(s, keyCode) ==
    IF keyCode = ENTER_KEY /\ s.editor # Null THEN escapeEditing(s, TRUE)
    ELSE IF keyCode = ESCAPE_KEY /\ s.editor # Null THEN escapeEditing(s, FALSE)
    ELSE IF keyCode = ESCAPE_KEY THEN off(s)
    ELSE s

\* addEditBox({ x, y, offsetX, offsetY, page }): lines 54-71
addEditBox(s, e) ==
    LET removed == IF s.editor # Null THEN s.boxes - 1 ELSE s.boxes
    IN  [s EXCEPT !.coordinates = [x |-> e.offsetX, y |-> e.offsetY],
                  !.page = [t |-> "number", value |-> e.page],
                  !.editor = [t |-> "div", top |-> e.y, left |-> e.x],
                  !.boxes = removed + 1,
                  !.input = [t |-> "textarea", value |-> ""]]

\* handlePageClick(e): lines 44-53
handlePageClick(s, e) ==
    IF ~s.active THEN s
    ELSE IF s.editor # Null THEN escapeEditing(s, FALSE)
    ELSE addEditBox(s, e)

\* the document dispatches a keyup event: the listeners registered when the
\* dispatch starts are called in the order of their registration, each one
\* unless it was removed meanwhile
RECURSIVE dispatchKeyup(_, _, _)
dispatchKeyup(s, keyCode, pending) ==
    IF pending = {} THEN s
    ELSE LET f == CHOOSE g \in pending : \A h \in pending : g <= h
             t == IF f \in s.listeners THEN handleKeyPress(s, keyCode) ELSE s
         IN  dispatchKeyup(t, keyCode, pending \ { f })

\* the fields of the editor after a handler has run
assign(s) ==
    /\ active' = s.active
    /\ toggled' = s.toggled
    /\ listeners' = s.listeners
    /\ binds' = s.binds
    /\ editor' = s.editor
    /\ input' = s.input
    /\ coordinates' = s.coordinates
    /\ page' = s.page
    /\ boxes' = s.boxes
    /\ dispatched' = s.dispatched

\* a viewer whose editor was just constructed
EditorInit ==
    /\ EditorIdle
    /\ ViewIdle
    /\ WriteInit
    /\ \A p \in PageIndices : ~fileAnnots[p]
    /\ DictIdle
    /\ EnsureIdle
    /\ CapsIdle
    /\ LayerIdle
    /\ StreamLoaded

\* a click on the toggle button: the listener of line 13 calls toggle()
clickToggle ==
    /\ active \/ binds < MaxBinds
    /\ assign(toggle(this))
    /\ handled' = [type |-> "click"]
    /\ UNCHANGED opener
    /\ UNCHANGED << writeVars, otherVars, streamVars, viewVars >>

\* a key is released: every keyup listener of the document is called
keyup(keyCode) ==
    /\ assign(dispatchKeyup(this, keyCode, listeners))
    /\ handled' = [type |-> "keyup", keyCode |-> keyCode]
    /\ opener' = IF editor' = Null THEN Null ELSE opener
    /\ UNCHANGED << writeVars, otherVars, streamVars, viewVars >>

\* a page view dispatches 'pageclick': the listener of line 16 runs
pageclick(e) ==
    /\ assign(handlePageClick(this, e))
    /\ handled' = [type |-> "pageclick", event |-> e]
    /\ opener' = IF editor' = Null THEN Null
                 ELSE IF editor = Null THEN e ELSE opener
    /\ UNCHANGED << writeVars, otherVars, streamVars, viewVars >>

\* the user types into the textarea of the edit box
typeText(text) ==
    /\ input # Null
    /\ input.value # text
    /\ input' = [input EXCEPT !.value = text]
    /\ dispatched' = << >>
    /\ handled' = [type |-> "input"]
    /\ UNCHANGED << active, toggled, listeners, binds, editor, coordinates,
                    page, boxes, opener >>
    /\ UNCHANGED << writeVars, otherVars, streamVars, viewVars >>

EditorNext ==
    \/ clickToggle
    \/ \E keyCode \in KeyCodes : keyup(keyCode)
    \/ \E e \in PageClicks : pageclick(e)
    \/ \E text \in Texts : typeText(text)

SpecEditor == EditorInit /\ [][EditorNext]_vars

(* ---------------- the page view (src/web/pdf_page_view.js) ------------ *)

\* The layout of the page's div, the viewport, the scale and the statistics
\* are left out: no handler below reads them to decide what it does to the
\* fields that are kept.  The text layer and annotation layer factories and
\* the rendering queue are present.

\* the page view and its paint tasks, as one value
view ==
    [ pdfPage |-> pdfPage, renderingState |-> renderingState,
      paintTask |-> paintTask, resume |-> resume, textLayer |-> textLayer,
      annotationLayer |-> annotationLayer, canvas |-> canvas, svg |-> svg,
      zoomLayer |-> zoomLayer, error |-> error, tasks |-> tasks,
      rendered |-> << >> ]

\* eventBus.dispatch('pagerendered', { source, pageNumber, cssTransform,
\* timestamp })
pagerendered(cssTransform) ==
    [ name |-> "pagerendered", cssTransform |-> cssTransform ]

\* eventBus.dispatch('pagerender', { source, pageNumber })
pagerender == [ name |-> "pagerender" ]

\* paintTask.cancel(): renderTask.cancel() of the canvas task (line 515),
\* cancelled = true of the svg task (line 652)
cancel(ts, k) == [ts EXCEPT ![k].cancelled = TRUE]

\* cancelRendering(keepAnnotations): lines 272-287
cancelRendering(v, keepAnnotations) ==
    [v EXCEPT !.tasks = IF v.paintTask # 0 THEN cancel(@, v.paintTask) ELSE @,
              !.paintTask = 0,
              !.resume = 0,
              !.textLayer = FALSE,
              !.annotationLayer = IF keepAnnotations THEN @ ELSE FALSE]

\* reset(keepZoomLayer, keepAnnotations): lines 159-208
reset(v, keepZoomLayer, keepAnnotations) ==
    LET w == cancelRendering(v, keepAnnotations)
        currentZoomLayerNode == keepZoomLayer /\ w.zoomLayer
        currentAnnotationNode == keepAnnotations /\ w.annotationLayer
    IN  [w EXCEPT !.renderingState = "INITIAL",
                  !.annotationLayer = currentAnnotationNode,
                  !.canvas = IF currentZoomLayerNode THEN @ ELSE FALSE,
                  !.zoomLayer = currentZoomLayerNode,
                  !.svg = FALSE]

\* update(scale, rotation): lines 210-266.  restricted is
\* this.hasRestrictedScaling && isScalingRestricted, shown that the canvas
\* has lost its attribute 'hidden'
update(v, restricted, shown) ==
    IF v.svg
    THEN [v EXCEPT !.rendered = Append(@, pagerendered(TRUE))]
    ELSE IF v.canvas /\ (useOnlyCssZoom \/ restricted)
    THEN [v EXCEPT !.rendered = Append(@, pagerendered(TRUE))]
    ELSE reset([v EXCEPT !.zoomLayer = @ \/ (v.canvas /\ shown)], TRUE, TRUE)

\* draw(): lines 372-505; k numbers the paint task it makes
draw(v, k) ==
    LET w == IF v.renderingState # "INITIAL" THEN reset(v, FALSE, FALSE) ELSE v
    IN  IF ~w.pdfPage
        THEN [w EXCEPT !.renderingState = "FINISHED"]
        ELSE [w EXCEPT !.renderingState = "RUNNING",
                       !.textLayer = TRUE,
                       !.canvas = IF renderer = "canvas" THEN TRUE ELSE @,
                       !.tasks = [@ EXCEPT ![k] = [status |-> "running",
                                                   cancelled |-> FALSE]],
                       !.paintTask = k,
                       !.annotationLayer = TRUE,
                       !.rendered = Append(@, pagerender)]

\* renderContinueCallback(cont) of the paint task k: lines 420-433
renderContinueCallback(v, k, isHighestPriority) ==
    IF ~isHighestPriority
    THEN [v EXCEPT !.renderingState = "PAUSED",
                   !.resume = k,
                   !.tasks = [@ EXCEPT ![k].status = "waiting"]]
    ELSE v

\* this.resume(), the closure of lines 425-428, made for the task k: cont()
\* lets the renderer go on unless the task was cancelled
resumeCallback(v, k) ==
    [v EXCEPT !.renderingState = "RUNNING",
              !.tasks = IF v.tasks[k].status = "waiting" /\ ~v.tasks[k].cancelled
                        THEN [@ EXCEPT ![k].status = "running"]
                        ELSE @]

\* RenderingCancelledException
RenderingCancelled == "cancelled"

\* finishPaintTask(error) of the paint task k: lines 435-469; outcome is
\* "ok" for finishPaintTask(null)
finishPaintTask(v, k, outcome) ==
    LET w == [v EXCEPT !.paintTask = IF k = v.paintTask THEN 0 ELSE @,
                       !.tasks = [@ EXCEPT ![k].status = "finished"]]
    IN  IF outcome = RenderingCancelled
        THEN [w EXCEPT !.error = "null"]
        ELSE [w EXCEPT !.renderingState = "FINISHED",
                       !.zoomLayer = FALSE,
                       !.error = IF outcome = "ok" THEN "null" ELSE "Error",
                       !.rendered = Append(@, pagerendered(FALSE))]

\* the fields of the page view after a handler has run
assignView(v) ==
    /\ pdfPage' = v.pdfPage
    /\ renderingState' = v.renderingState
    /\ paintTask' = v.paintTask
    /\ resume' = v.resume
    /\ textLayer' = v.textLayer
    /\ annotationLayer' = v.annotationLayer
    /\ canvas' = v.canvas
    /\ svg' = v.svg
    /\ zoomLayer' = v.zoomLayer
    /\ error' = v.error
    /\ tasks' = v.tasks
    /\ rendered' = v.rendered
    /\ UNCHANGED << renderer, useOnlyCssZoom >>

\* what a view action leaves alone
notViewVars == << writeVars, otherVars, streamVars, editorVars >>

\* a page view just constructed, for either renderer
ViewInit ==
    /\ renderer \in { "canvas", "svg" }
    /\ useOnlyCssZoom \in BOOLEAN
    /\ pdfPage = FALSE
    /\ renderingState = "INITIAL"
    /\ paintTask = 0
    /\ resume = 0
    /\ textLayer = FALSE
    /\ annotationLayer = FALSE
    /\ canvas = FALSE
    /\ svg = FALSE
    /\ zoomLayer = FALSE
    /\ error = "null"
    /\ tasks = [k \in Tasks |-> NoTask]
    /\ rendered = << >>
    /\ ran = [op |-> "constructor"]
    /\ EditorIdle
    /\ WriteInit
    /\ \A p \in PageIndices : ~fileAnnots[p]
    /\ DictIdle
    /\ EnsureIdle
    /\ CapsIdle
    /\ LayerIdle
    /\ StreamLoaded

\* setPdfPage(pdfPage): lines 120-129
callSetPdfPage ==
    /\ assignView(reset([view EXCEPT !.pdfPage = TRUE], FALSE, FALSE))
    /\ ran' = [op |-> "setPdfPage"]
    /\ UNCHANGED notViewVars

\* destroy(): lines 131-136
callDestroy ==
    /\ assignView(reset(view, FALSE, FALSE))
    /\ ran' = [op |-> "destroy"]
    /\ UNCHANGED notViewVars

\* the viewer calls reset(keepZoomLayer, keepAnnotations)
callReset(keepZoomLayer, keepAnnotations) ==
    /\ assignView(reset(view, keepZoomLayer, keepAnnotations))
    /\ ran' = [op |-> "reset"]
    /\ UNCHANGED notViewVars

\* the viewer calls cancelRendering(keepAnnotations)
callCancelRendering(keepAnnotations) ==
    /\ assignView(cancelRendering(view, keepAnnotations))
    /\ ran' = [op |-> "cancelRendering"]
    /\ UNCHANGED notViewVars

\* the viewer calls update(scale, rotation)
callUpdate(restricted, shown) ==
    /\ assignView(update(view, restricted, shown))
    /\ ran' = [op |-> "update"]
    /\ UNCHANGED notViewVars

\* the viewer calls draw()
callDraw ==
    /\ \E k \in Tasks : tasks[k].status = "none"
    /\ LET k == CHOOSE j \in Tasks :
                  /\ tasks[j].status = "none"
                  /\ \A i \in Tasks : tasks[i].status = "none" => j <= i
       IN  assignView(draw(view, k))
    /\ ran' = [op |-> "draw"]
    /\ UNCHANGED notViewVars

\* the renderer of the canvas task k calls onRenderContinue(cont) between
\* two chunks of work (lines 589-596); it does not after cancel()
renderContinue(k, isHighestPriority) ==
    /\ renderer = "canvas"
    /\ tasks[k].status = "running"
    /\ ~tasks[k].cancelled
    /\ assignView(renderContinueCallback(view, k, isHighestPriority))
    /\ ran' = [op |-> "renderContinue", task |-> k]
    /\ UNCHANGED notViewVars

\* the rendering queue calls view.resume() of the paused view
callResume ==
    /\ renderingState = "PAUSED"
    /\ resume # 0
    /\ assignView(resumeCallback(view, resume))
    /\ ran' = [op |-> "resume"]
    /\ UNCHANGED notViewVars

\* The promise of the paint task k settles; finishPaintTask is queued.  A
\* task that was cancelled while it was at work is rejected with a
\* RenderingCancelledException (ensureNotCancelled, lines 621-626, for svg);
\* a task at work that was not cancelled ends well or with an error.  The
\* last step of an svg task that ends well sets this.svg and the rendering
\* state (lines 633-642).
taskSettles(k, outcome) ==
    /\ tasks[k].status \in { "running", "waiting" }
    /\ IF tasks[k].cancelled
       THEN outcome = RenderingCancelled
       ELSE tasks[k].status = "running" /\ outcome \in { "ok", "Error" }
    /\ tasks' = [tasks EXCEPT ![k].status = outcome]
    /\ IF renderer = "svg" /\ outcome = "ok"
       THEN svg' = TRUE /\ renderingState' = "FINISHED"
       ELSE UNCHANGED << svg, renderingState >>
    /\ rendered' = << >>
    /\ ran' = [op |-> "settle", task |-> k]
    /\ UNCHANGED << renderer, useOnlyCssZoom, pdfPage, paintTask, resume,
                    textLayer, annotationLayer, canvas, zoomLayer, error >>
    /\ UNCHANGED notViewVars

\* the continuation of paintTask.promise (lines 477-489) runs
\* finishPaintTask for the settled task k
paintTaskSettled(k) ==
    /\ tasks[k].status \in { "ok", "Error", RenderingCancelled }
    /\ assignView(finishPaintTask(view, k, tasks[k].status))
    /\ ran' = [op |-> "finishPaintTask", task |-> k, outcome |-> tasks[k].status]
    /\ UNCHANGED notViewVars

ViewNext ==
    \/ callSetPdfPage
    \/ callDestroy
    \/ \E kz \in BOOLEAN, ka \in BOOLEAN : callReset(kz, ka)
    \/ \E ka \in BOOLEAN : callCancelRendering(ka)
    \/ \E restricted \in BOOLEAN, shown \in BOOLEAN : callUpdate(restricted, shown)
    \/ callDraw
    \/ \E k \in Tasks, hp \in BOOLEAN : renderContinue(k, hp)
    \/ callResume
    \/ \E k \in Tasks, outcome \in { "ok", "Error", RenderingCancelled } :
          taskSettles(k, outcome)
    \/ \E k \in Tasks : paintTaskSettled(k)

SpecView == ViewInit /\ [][ViewNext]_vars

(* ------------------------------ claims -------------------------------- *)

\* the set of the elements of a sequence
Range(seq) == { seq[i] : i \in 1..Len(seq) }

\* call k was issued after every earlier call had settled
IssuedAfterAll(k) == pc[k] # "idle" /\ settledBefore[k] = 1..(k - 1)

\* calls 1..d were issued one after another, each awaited before the next,
\* and no later call was issued while call d was pending
Sequential(d) ==
    /\ \A k \in 1..d : IssuedAfterAll(k)
    /\ (d < MaxCalls /\ pc[d + 1] # "idle") => IssuedAfterAll(d + 1)

\* C1: the step of a call that mints its Ref builds Ref(trailer.Size, 0) from
\* the Size it reads and leaves trailer.Size at that value plus 1; the step
\* that resolves the call allocates nothing more (Size is left alone, so it
\* is the value the call read plus 1, plus 1 for each call that minted
\* after it), writes the annotation under the minted Ref and the page under
\* its existing Ref.
C1_MintFromSize ==
    [][\A c \in Calls :
          /\ (pc[c] = "loading" /\ pc'[c] = "paging") =>
                /\ local'[c].newAnnotationRef = Ref(trailerSize, 0)
                /\ trailerSize' = trailerSize + 1
          /\ (pc[c] = "paging" /\ pc'[c] = "resolved") =>
                /\ trailerSize' = trailerSize
                /\ trailerSize' = local[c].size + 1 +
                      Cardinality({d \in Calls \ {c} :
                                     Minted(d) /\ local[d].size > local[c].size})
                /\ result'[c].objects[1].ref = Ref(local[c].size, 0)
                /\ result'[c].objects[2].ref = PageRef(annotation[c].page)
      ]_vars

\* C1 witness: a call has resolved with its fragment
C1_Witness ==
    \E c \in Calls :
        /\ pc[c] = "resolved"
        /\ result[c].objects[1].ref.num = local[c].size
        /\ trailerSize > local[c].size

\* C2: in a run of calls issued one after another, each call reads the Size
\* the call before it left, so the minted object numbers go up by exactly 1.
C2_SequentialNumbers ==
    \A d \in Calls :
        (d > 1 /\ Sequential(d) /\ Minted(d)) =>
            /\ local[d].newAnnotationRef.num = local[d - 1].newAnnotationRef.num + 1
            /\ local[d].size = local[d - 1].size + 1

\* C2 witness: two calls in sequence, both settled, the first one rejected
\* or resolved
C2_Witness ==
    /\ Sequential(2)
    /\ pc[2] = "resolved"
    /\ local[2].size = InitialSize + 1

\* C3 (as claimed): a call rejected for its page index has returned no
\* fragment and has left no trace in trailer.Size, which counts only the
\* calls that are not rejected.
C3_FailedCallCommitsNothing ==
    \A c \in Calls :
        pc[c] = "rejected" =>
            /\ result[c] = Undefined
            /\ trailerSize =
                 InitialSize + Cardinality({d \in Calls : pc[d] \in {"paging", "resolved"}})
            /\ \A p \in PageIndices :
                 local[c].newAnnotationRef \notin Range(annotations[p])

\* C4 (as claimed): at most one call is between its step 1 (Size read and
\* incremented) and its fragment.
C4_SingleWriteInFlight ==
    Cardinality({c \in Calls : pc[c] = "paging"}) <= 1

\* C5: no two calls mint the same object number, whatever the interleaving.
C5_DistinctRefs ==
    \A c, d \in Calls :
        (c # d /\ Minted(c) /\ Minted(d)) =>
            local[c].newAnnotationRef.num # local[d].newAnnotationRef.num

\* C5 witness: two calls are past step 1 and before their fragments together
C5_Witness ==
    \E c, d \in Calls :
        /\ c # d
        /\ pc[c] = "paging"
        /\ pc[d] = "paging"
        /\ local[c].newAnnotationRef # local[d].newAnnotationRef

\* C6 (as claimed): the trailer of a call's fragment carries Size = the call's
\* new object number + 1 and points back at the startXRef the call read.
C6_FragmentTrailer ==
    \A c \in Calls :
        pc[c] = "resolved" =>
            /\ result[c].trailer.Size = local[c].newAnnotationRef.num + 1
            /\ result[c].trailer.Prev = local[c].startXRef

\* C7 (as claimed): of two calls in sequence on the accessor, the second
\* fragment starts where the first ends and points back at the first's
\* cross-reference section.
C7_SecondBuildsOnFirst ==
    \A d \in Calls :
        (d > 1 /\ Sequential(d) /\ pc[d] = "resolved" /\ pc[d - 1] = "resolved") =>
            /\ result[d].objects[1].offset =
                 result[d - 1].objects[1].offset + result[d - 1].length
            /\ result[d].trailer.Prev = result[d - 1].xrefOffset

\* C8 (as claimed): the page's own annotation sequence is never changed.
C8_AnnotationsKept ==
    \A p \in PageIndices : annotations[p] = OriginalAnnotations(p)

\* C9: the page's original Dictionary is never changed: same keys, same
\* order, same raw values after any number of annotate calls.
C9_PageDictKept ==
    \A p \in PageIndices : pageDict[p] = OriginalPageDict(p)

\* C9 witness: two calls have resolved on one page whose Dictionary has
\* Annots: its annotation sequence has grown, its Dictionary still holds the
\* raw reference
C9_Witness ==
    \E c, d \in Calls :
        /\ c # d
        /\ pc[c] = "resolved"
        /\ pc[d] = "resolved"
        /\ annotation[c].page = annotation[d].page
        /\ has(pageDict[annotation[c].page], "Annots")
        /\ getRaw(pageDict[annotation[c].page], "Annots").t = "ref"
        /\ Len(annotations[annotation[c].page]) = 3

\* the keys of a Dictionary other than Annots, in order
OtherKeys(d) == SelectSeq(getKeys(d), LAMBDA k : k # "Annots")

\* C10: the rewritten page Dictionary has the original keys and Annots, each
\* once; the other keys keep their raw values and their relative order;
\* Annots is the annotation sequence, which ends with the call's new Ref.
C10_RewrittenPageDict ==
    \A c \in Calls :
        pc[c] = "resolved" =>
            LET old == OriginalPageDict(annotation[c].page)
                new == result[c].objects[2].dict
                a   == getRaw(new, "Annots")
            IN  /\ Range(getKeys(new)) = Range(getKeys(old)) \cup {"Annots"}
                /\ Cardinality(Range(getKeys(new))) = Len(new)
                /\ \A k \in Range(getKeys(old)) \ {"Annots"} :
                       getRaw(new, k) = getRaw(old, k)
                /\ OtherKeys(new) = OtherKeys(old)
                /\ a.t = "array"
                /\ Len(a.a) > 0
                /\ a.a[Len(a.a)] = local[c].newAnnotationRef

\* C10 witness: rewritten Dictionaries exist for a page that had Annots and
\* for a page that had none
C10_Witness ==
    \E c, d \in Calls :
        /\ pc[c] = "resolved" /\ pc[d] = "resolved"
        /\ has(OriginalPageDict(annotation[c].page), "Annots")
        /\ ~has(OriginalPageDict(annotation[d].page), "Annots")
        /\ Len(getRaw(result[c].objects[2].dict, "Annots").a) = 2
        /\ Len(getRaw(result[d].objects[2].dict, "Annots").a) = 1

\* truncation toward zero of (n/den) * extent, for n, den, extent >= 0
trunc(n, den, extent) == (n * extent) \div den

\* C11: for fractional coordinates (x, y) in [0,1] x [0,1] and a page whose
\* view rectangle is [x0, y0, x1, y1], with W = x1 - x0 and H = y1 - y0, the
\* Rect of the built annotation is
\* [trunc(x*W), trunc(y*H), trunc(x*W) + 12, trunc(y*H) + 10].
C11_RectFromViewSize ==
    dictOut # EmptyDict =>
        LET W == dictView[3] - dictView[1]
            H == dictView[4] - dictView[2]
            tx == trunc(dictProps.coords.xn, dictProps.coords.den, W)
            ty == trunc(dictProps.coords.yn, dictProps.coords.den, H)
        IN  /\ has(dictOut, "Rect")
            /\ getRaw(dictOut, "Rect") = Arr(<< tx, ty, tx + 12, ty + 10 >>)

\* C12: whatever the entry point, the built Dictionary has Type = Annot,
\* Subtype = Text, a Rect, Contents = the request's contents, and the key T
\* exactly when the request supplied an author, T then being that author.
C12_AnnotationDictEntries ==
    dictOut # EmptyDict =>
        /\ has(dictOut, "Type") /\ getRaw(dictOut, "Type") = Name("Annot")
        /\ has(dictOut, "Subtype") /\ getRaw(dictOut, "Subtype") = Name("Text")
        /\ has(dictOut, "Rect")
        /\ has(dictOut, "Contents")
        /\ getRaw(dictOut, "Contents") = dictProps.contents
        /\ has(dictOut, "T") <=> (dictProps.author # Undefined)
        /\ has(dictOut, "T") => getRaw(dictOut, "T") = dictProps.author

\* the object numbers a fragment refers to: its two object headers and the
\* Refs of the rewritten page's Annots
FragmentNumbers(f) ==
    { f.objects[i].ref.num : i \in 1..2 }
        \cup { r.num : r \in Range(getRaw(f.objects[2].dict, "Annots").a) }

\* C13: every object number a returned fragment refers to is below the Size
\* recorded in the persisted file the fragment is appended to, or is the
\* number of the annotation object written in that same fragment.
C13_FragmentSelfContained ==
    \A c \in Calls :
        pc[c] = "resolved" =>
            \A n \in FragmentNumbers(result[c]) :
                n < InitialSize \/ n = result[c].objects[1].ref.num

\* C15: in the progressively-fetched accessor, when an invocation signals
\* missing bytes [begin, end), exactly that range is requested from the
\* Byte-Range Source; the operation is not invoked again until the request
\* has completed; the next invocation is of the same operation, from its
\* first read on.
C15_RequestExactRangeThenRetry ==
    [][variant = "network" =>
        /\ Len(signals') # Len(signals) =>
              /\ signals' = Append(signals, signals'[Len(signals')])
              /\ requests' = Append(requests,
                                [begin |-> signals'[Len(signals')].begin,
                                 end   |-> signals'[Len(signals')].end])
              /\ epc' = "waiting"
              /\ reqState' = "requested"
        /\ Len(requests') # Len(requests) => Len(signals') = Len(signals) + 1
        /\ attempts' # attempts =>
              /\ attempts' = attempts + 1
              /\ epc = "idle" \/ (epc = "waiting" /\ reqState = "completed")
        /\ (attempts' # attempts /\ epc = "waiting") =>
              /\ eOp' = eOp
              /\ Len(lastReads') >= 1 \/ eOp.reads = << >>
              /\ lastReads' = SubSeq(eOp.reads, 1, Len(lastReads'))
    ]_vars

\* a call on the progressively-fetched accessor that requested a range,
\* retried and resolved
C15_Witness ==
    /\ variant = "network"
    /\ epc = "resolved"
    /\ attempts = 2
    /\ Len(requests) = 1
    /\ requests[1] = [begin |-> 1, end |-> 2]

\* C16: in every accessor variant, when an invocation of the operation fails
\* with something other than a missing-range signal, the call is rejected
\* with that very failure, no range is requested for it, and the operation
\* is never invoked again.
C16_OtherFailuresPropagate ==
    [][/\ ( /\ attempts' # attempts
            /\ firstMissing(eOp', resident) = 0
            /\ eOp'.fault # NoFault ) =>
                /\ epc' = "rejected"
                /\ eResult' = eOp'.fault
                /\ requests' = requests
                /\ reqState' = "none"
       /\ epc = "rejected" =>
                /\ attempts' = attempts
                /\ requests' = requests
                /\ epc' = "rejected"
                /\ eResult' = eResult
    ]_vars

\* a call on the progressively-fetched accessor whose operation failed with a
\* FormatError on its second invocation
C16_Witness ==
    /\ variant = "network"
    /\ epc = "rejected"
    /\ attempts = 2
    /\ eResult = [t |-> "error", name |-> "FormatError"]
    /\ Len(requests) = 1

\* C17: with a well-formed source (every completed request left its range
\* resident), an ensure call of the progressively-fetched accessor that met k
\* distinct missing ranges has issued exactly k requests, one per distinct
\* range; it invokes the operation at most once per read and once more, and
\* it resolves with the operation's result unless the operation itself fails.
C17_OneRequestPerMissingRange ==
    (variant = "network" /\ wellFormed /\ epc # "idle") =>
        /\ \A i, j \in 1..Len(requests) : requests[i] = requests[j] => i = j
        /\ Len(requests) = Cardinality(Range(signals))
        /\ Range(requests) =
              { [begin |-> ex.begin, end |-> ex.end] : ex \in Range(signals) }
        /\ attempts <= Len(eOp.reads) + 1
        /\ epc = "resolved" => eResult = ValueOf(eOp)
        /\ epc = "rejected" => eResult = eOp.fault
        /\ epc = "waiting" => reqState \in { "requested", "completed" }

\* a call that met two distinct missing ranges, requested each once and
\* resolved on its third invocation
C17_Witness ==
    /\ variant = "network"
    /\ wellFormed
    /\ epc = "resolved"
    /\ Len(requests) = 2
    /\ requests[1] # requests[2]
    /\ attempts = 3
    /\ eResult = ValueOf(eOp)

\* C18: when an invocation signals a missing range that this call has
\* already fetched, ensure ends with a failure: it neither requests the
\* range again nor waits to retry.
C18_RepeatedSignalIsFatal ==
    [][( /\ attempts' # attempts
         /\ firstMissing(eOp', resident) # 0
         /\ requestRange(eOp'.reads[firstMissing(eOp', resident)].begin,
                         eOp'.reads[firstMissing(eOp', resident)].end)
                \in Range(requests) ) =>
            /\ epc' = "rejected"
            /\ requests' = requests
    ]_vars

\* C20: on the fully-resident and the layered accessor, a call of
\* requestRange, requestLoadedStream, terminate or sendProgressiveData does
\* not throw and leaves the accessor as it was; requestRange returns an
\* already resolved promise.
C20_UnsupportedCapabilitiesAreNoOps ==
    [][( variant \in { "local", "layered" } /\ capLog' # capLog ) =>
            /\ capLog'[Len(capLog')].outcome # "threw"
            /\ capLog'[Len(capLog')].outcome # "pending"
            /\ capLog'[Len(capLog')].cap = "requestRange" =>
                    capLog'[Len(capLog')].outcome = "resolved"
            /\ UNCHANGED << resident, requests, reqState, epc >>
    ]_vars

\* C14: over any sequence of accessor operations on one document, building
\* a layered accessor included, trailer.Size never decreases and no object
\* number is minted twice.
C14_SizeOnlyGrows ==
    [][/\ trailerSize' >= trailerSize
       /\ \A c \in Calls :
            (pc[c] = "loading" /\ pc'[c] = "paging") =>
                \A d \in Calls \ {c} :
                    Minted(d) => local[d].newAnnotationRef # local'[c].newAnnotationRef
    ]_vars

\* C19: no ensure, getPage or annotate made through the layered accessor is
\* applied to the parsed document before the concatenation has completed
\* and the document has been updated with it.
C19_LayeredOperationsWait ==
    [][/\ applied' # applied => layer = "ready"
       /\ \A c \in Calls :
            (onLayered(c) /\ pc[c] = "loading" /\ pc'[c] = "paging") => layer = "ready"
    ]_vars

\* C21: when the Byte-Range Source fails or the accessor is aborted while an
\* ensure call waits for a range, or an annotate call for the full stream,
\* the call ends rejected; no range is requested and the operation is not
\* invoked for it again, and the writer does not run for the annotate call.
C21_FailureIsTerminal ==
    [][/\ (epc = "waiting" /\ reqState = "requested" /\ reqState' = "none") =>
            /\ epc' = "rejected"
            /\ eResult' = AbortException
            /\ requests' = requests
            /\ attempts' = attempts
       /\ epc = "rejected" =>
            /\ epc' = "rejected"
            /\ requests' = requests
            /\ attempts' = attempts
            /\ reqState' = "none"
       /\ stream = "failed" => stream' = "failed"
       /\ \A c \in Calls :
            /\ (pc[c] = "loading" /\ stream = "failed") =>
                    /\ pc'[c] \in { "loading", "rejected" }
                    /\ local'[c] = Undefined
                    /\ pc'[c] = "rejected" => trailerSize' = trailerSize
            /\ pc[c] = "rejected" => pc'[c] = "rejected"
    ]_vars

\* the accessor was aborted while an ensure call waited for a range and an
\* annotate call for the full stream: both ended rejected, nothing was minted
C21_Witness ==
    /\ stream = "failed"
    /\ epc = "rejected"
    /\ eResult = AbortException
    /\ Len(requests) = 1
    /\ attempts = 1
    /\ pc[1] = "rejected"
    /\ local[1] = Undefined
    /\ trailerSize = InitialSize

\* C22: an annotation added through the layered accessor is written at the
\* offset that is the length of the original bytes plus the first update's
\* bytes, and is numbered from the Size recorded by the first update, never
\* below it; when the calls before the update were made one after the other
\* and had all settled, its number is that Size plus the number of
\* annotations already minted through the layered accessor.
C22_LayeredNumbering ==
    [][\A c \in Calls :
        (onLayered(c) /\ pc[c] = "loading" /\ pc'[c] = "paging") =>
            LET f == result[updatedData]
            IN  /\ local'[c].byteLength = InitialByteLength + f.length
                /\ local'[c].size >= f.trailer.Size
                /\ local'[c].size > InitialSize
                /\ local'[c].newAnnotationRef = Ref(local'[c].size, 0)
                /\ (callsAtBuild = updatedData /\ Sequential(updatedData)) =>
                        local'[c].size = f.trailer.Size +
                            Cardinality({ d \in Calls \ {c} :
                                            onLayered(d) /\ Minted(d) })
    ]_vars

\* the second annotation, added through the layered accessor built from the
\* first one's fragment, is object 10 of a file that had Size 9
C22_Witness ==
    /\ layer = "ready"
    /\ updatedData = 1
    /\ onLayered(2)
    /\ pc[2] = "resolved"
    /\ local[2].size = InitialSize + 1
    /\ local[2].byteLength = InitialByteLength + result[1].length
    /\ result[2].objects[1].ref = Ref(InitialSize + 1, 0)
    /\ result[2].objects[1].offset = InitialByteLength + result[1].length

\* C23: annotate first asks for the full byte stream, without reading the
\* trailer; the writer, its read of trailer.Size included, runs only once
\* the full stream has been delivered, and the length it is handed is the
\* byte length of the fully loaded stream.
C23_WriterAfterFullStream ==
    [][/\ \A c \in Calls :
            /\ (pc[c] = "idle" /\ pc'[c] = "loading") =>
                    /\ stream' # "partial"
                    /\ trailerSize' = trailerSize
                    /\ local'[c] = Undefined
            /\ (pc[c] = "loading" /\ pc'[c] = "paging") =>
                    /\ stream = "loaded"
                    /\ local'[c].byteLength = InitialByteLength
                    /\ local'[c].size = trailerSize
       /\ trailerSize' # trailerSize => stream = "loaded"
    ]_vars

\* an annotate call on the progressively-fetched accessor resolved after the
\* source had delivered the whole file
C23_Witness ==
    /\ variant = "network"
    /\ stream = "loaded"
    /\ pc[1] = "resolved"
    /\ local[1].byteLength = InitialByteLength
    /\ result[1].objects[1].offset = InitialByteLength

\* C24: a fragment holds exactly two objects, written in this order: the
\* new annotation object under the newly minted Ref, at the end of the
\* file; then the rewritten page object under the page's own Ref, number
\* and generation unchanged; then the cross-reference section and trailer.
C24_FragmentOrder ==
    \A c \in Calls :
        pc[c] = "resolved" =>
            LET f == result[c]
            IN  /\ Len(f.objects) = 2
                /\ f.objects[1].ref = local[c].newAnnotationRef
                /\ f.objects[1].ref = Ref(local[c].size, 0)
                /\ getRaw(f.objects[1].dict, "Type") = Name("Annot")
                /\ f.objects[2].ref = PageRef(annotation[c].page)
                /\ f.objects[2].ref.gen = 0
                /\ getRaw(f.objects[2].dict, "Type") = Name("Page")
                /\ f.objects[1].offset = local[c].byteLength
                /\ f.objects[1].offset < f.objects[2].offset
                /\ f.objects[2].offset < f.xrefOffset
                /\ f.xrefOffset < local[c].byteLength + f.length

\* a call on page 1 resolved: object 9 is the annotation, object 2 the page
C24_Witness ==
    /\ pc[1] = "resolved"
    /\ annotation[1].page = 1
    /\ result[1].objects[1].ref = Ref(InitialSize, 0)
    /\ result[1].objects[2].ref = Ref(2, 0)
    /\ result[1].objects[1].offset = InitialByteLength

\* C25: ensure of the fully-resident and of the layered accessor invokes the
\* operation exactly once, issues no range request, and settles with what
\* the direct invocation on the target gives: its value, or its failure.
C25_EnsureIsDirectInvocation ==
    (variant \in { "local", "layered" } /\ epc # "idle") =>
        /\ attempts = 1
        /\ requests = << >>
        /\ signals = << >>
        /\ reqState = "none"
        /\ LET out == apply(eOp, resident)
           IN  IF out.t = "return"
               THEN epc = "resolved" /\ eResult = out.value
               ELSE epc = "rejected" /\ eResult = out.ex

\* ensure of the layered accessor resolved with the value of an operation
\* that reads two ranges
C25_Witness ==
    /\ variant = "layered"
    /\ epc = "resolved"
    /\ Len(eOp.reads) = 2
    /\ eResult = ValueOf(eOp)
    /\ attempts = 1

\* C26: the stream of the layered accessor is the original bytes followed by
\* the update bytes, its length the sum of both; the concatenation and the
\* update of the parsed document happen once, when the original stream has
\* been delivered, however often onLoadedStream or annotate is called; when
\* the original stream fails, the layered stream fails and the parsed
\* document is not updated.
C26_ConcatenatedOnce ==
    [][/\ (layer # "ready" /\ layer' = "ready") =>
            /\ layer = "pending"
            /\ stream = "loaded"
            /\ byteLength = InitialByteLength
            /\ byteLength' = InitialByteLength + updatedFragment.length
            /\ startXRef' = updatedFragment.xrefOffset
            /\ trailerSize' = updatedFragment.trailer.Size
       /\ (layer = layer' \/ layer' # "ready") =>
            /\ byteLength' = byteLength
            /\ startXRef' = startXRef
       /\ layer = "ready" => layer' = "ready"
       /\ layer = "rejected" => layer' = "rejected"
       /\ (layer = "pending" /\ stream = "failed") =>
            /\ layer' \in { "pending", "rejected" }
            /\ pageDict' = pageDict
            /\ annotations' = annotations
       /\ (layer = "pending" /\ layer' = "rejected") => stream = "failed"
    ]_vars

\* the layered accessor was built on a stream still loading, the stream
\* arrived, the concatenation ran once, onLoadedStream was called after it, and
\* an annotation was added through the layered accessor
C26_Witness ==
    /\ variant = "network"
    /\ layer = "ready"
    /\ updatedData = 0
    /\ byteLength = InitialByteLength + StoredFragment.length
    /\ applied = [op |-> "onLoadedStream", layer |-> "ready"]
    /\ pc[1] = "resolved"
    /\ onLayered(1)

\* the original stream failed: the layered stream failed, nothing was updated
C26_WitnessFailed ==
    /\ stream = "failed"
    /\ layer = "rejected"
    /\ byteLength = InitialByteLength
    /\ startXRef = InitialStartXRef

\* the inputs of the run of call c: the request, the trailer Size, the prior
\* cross-reference offset and the file length it read on entry, and the
\* trailer Size and the page state its getPage continuation read
RunInputs(c) ==
    << annotation[c], local[c].size, local[c].startXRef, local[c].byteLength,
       seen[c] >>

WriterEntered == \E c \in Calls : pc[c] = "loading" /\ pc'[c] = "paging"

\* C28: only the write path changes the trailer's Size.  A step that changes
\* it is the writer's entry; every step of ensure (its first attempt, the
\* arrival or failure of the range it waits for, its retries), of getPage,
\* requestRange, requestLoadedStream, sendProgressiveData and terminate
\* (each changes the state of ensure, of the stream or the log of capability
\* calls) and of updatePassword leaves it as it was.
C28_OnlyWritePathChangesTrailer ==
    [][/\ trailerSize' # trailerSize => WriterEntered
       /\ ( ensureVars' # ensureVars \/ capVars' # capVars \/ stream' # stream )
            => trailerSize' = trailerSize
      ]_vars

\* C28 witness: on the progressively-fetched accessor, ensure has retried and
\* resolved, the password was updated, capability calls were made and one
\* annotate call has minted its object number
C28_Witness ==
    /\ variant = "network"
    /\ epc = "resolved"
    /\ attempts >= 2
    /\ password = "user"
    /\ Len(capLog) = MaxCapCalls
    /\ \E i \in 1..Len(capLog) : capLog[i].cap = "getPage"
    /\ \E i \in 1..Len(capLog) : capLog[i].cap = "sendProgressiveData"
    /\ pc[1] = "resolved"
    /\ trailerSize = InitialSize + 1

\* the four fields of the editor that describe the edit box
FieldsAllNull ==
    editor = Null /\ input = Null /\ coordinates = Null /\ page = Null

FieldsAllSet ==
    editor # Null /\ input # Null /\ coordinates # Null /\ page # Null

\* C29: in every state the fields editor, input, coordinates and page of the
\* annotation editor are all null or all set.  They become set in the step
\* of a page click handled while the editor is active, from that click; they
\* become null, all four in the same step, when a key press (Enter: submit,
\* Escape: cancel) or a page click ends the editing.
C29_FieldsAllOrNone ==
    /\ [](FieldsAllNull \/ FieldsAllSet)
    /\ [][(FieldsAllNull /\ ~FieldsAllNull') =>
            ( /\ active
              /\ handled'.type = "pageclick"
              /\ FieldsAllSet'
              /\ coordinates' = [x |-> handled'.event.offsetX,
                                 y |-> handled'.event.offsetY]
              /\ page' = [t |-> "number", value |-> handled'.event.page]
              /\ input'.value = "" )]_vars
    /\ [][(FieldsAllSet /\ ~FieldsAllSet') =>
            ( /\ FieldsAllNull'
              /\ \/ handled'.type = "pageclick"
                 \/ /\ handled'.type = "keyup"
                    /\ handled'.keyCode \in { ENTER_KEY, ESCAPE_KEY } )]_vars

\* C29 witness: an edit box was opened by a page click, text was typed and
\* Enter submitted it; the four fields are null again
C29_Witness ==
    /\ handled = [type |-> "keyup", keyCode |-> ENTER_KEY]
    /\ Len(dispatched) = 1
    /\ dispatched[1].text = "note"
    /\ FieldsAllNull
    /\ boxes = 0

\* C30: a step dispatches 'createannotation' exactly when it is an Enter key
\* press made while an edit box is open, and then it dispatches it once,
\* however many keyup listeners the earlier on/off toggles have left, with
\* the text typed and the page and the coordinates of the page click that
\* opened the edit box; every other step (Escape, other keys, page clicks,
\* clicks on the toggle button) dispatches nothing.
C30_OneEventPerEnter ==
    [][IF /\ handled'.type = "keyup"
          /\ handled'.keyCode = ENTER_KEY
          /\ editor # Null
       THEN dispatched' =
              << createannotation(input.value,
                                  [t |-> "number", value |-> opener.page],
                                  [x |-> opener.offsetX, y |-> opener.offsetY]) >>
       ELSE dispatched' = << >>
      ]_vars

\* C30 witness: the editor was switched on, off and on again, so that two
\* keyup listeners are registered, and one Enter key press on an open edit
\* box has dispatched one event
C30_Witness ==
    /\ binds >= 2
    /\ Cardinality(listeners) >= 2
    /\ handled = [type |-> "keyup", keyCode |-> ENTER_KEY]
    /\ Len(dispatched) = 1
    /\ dispatched[1].name = "createannotation"
    /\ dispatched[1].coordinates = [x |-> 9, y |-> 5]
    /\ editor = Null

\* the fields of the editor, with what it has attached to the document
EditorFields ==
    << active, toggled, listeners, editor, input, coordinates, page, boxes >>

\* C31: after off() the key handler is no longer registered, and at most one
\* key handler is registered at any time; a key press while the editor is
\* inactive changes nothing and dispatches nothing; one Escape key press
\* while an edit box is open closes the box and leaves the editor active.
C31_KeyHandlerRemovedByOff ==
    /\ [](~active => listeners = {})
    /\ [](Cardinality(listeners) <= 1)
    /\ [][(handled'.type = "keyup" /\ ~active) =>
            ( EditorFields' = EditorFields /\ dispatched' = << >> )]_vars
    /\ [][( /\ handled'.type = "keyup"
            /\ handled'.keyCode = ESCAPE_KEY
            /\ active
            /\ editor # Null ) => ( editor' = Null /\ active' )]_vars

\* C32: after reset() or cancelRendering() the paint task and the resume
\* callback of the page view are null, and after reset() the rendering state
\* is INITIAL; in every state a rendering state of PAUSED comes with a
\* resume callback that is not null.
C32_PausedHasResume ==
    /\ [][ran'.op \in { "reset", "cancelRendering" } =>
            ( paintTask' = 0 /\ resume' = 0 )]_vars
    /\ [][ran'.op = "reset" => renderingState' = "INITIAL"]_vars
    /\ [](renderingState = "PAUSED" => resume # 0)

\* the part of C32 that holds: what reset() and cancelRendering() leave
C32_AfterResetOrCancel ==
    /\ [][ran'.op \in { "reset", "cancelRendering" } =>
            ( paintTask' = 0 /\ resume' = 0 )]_vars
    /\ [][ran'.op = "reset" => renderingState' = "INITIAL"]_vars

\* the completion of a paint task that is not the current one
StaleCompletion ==
    ran'.op = "finishPaintTask" /\ ran'.task # paintTask

\* C33: when a paint task that was cancelled completes late with a
\* rendering-cancelled error, the reference to a newer paint task is kept,
\* the rendering state is not set to FINISHED and no 'pagerendered' event is
\* dispatched; the completion of a paint task moves the state to FINISHED
\* only if that task is the current one.
C33_OnlyCurrentTaskFinishes ==
    /\ [][(StaleCompletion /\ ran'.outcome = RenderingCancelled) =>
            ( /\ paintTask' = paintTask
              /\ renderingState' = renderingState
              /\ rendered' = << >> )]_vars
    /\ [][(StaleCompletion /\ renderingState # "FINISHED") =>
            renderingState' # "FINISHED"]_vars

\* the part of C33 that holds: a late completion with a rendering-cancelled
\* error changes neither the paint task nor the rendering state
C33_CancelledCompletionIsIgnored ==
    [][(StaleCompletion /\ ran'.outcome = RenderingCancelled) =>
        ( /\ paintTask' = paintTask
          /\ renderingState' = renderingState
          /\ rendered' = << >> )]_vars

====
